---- MODULE Spec2Model ----
(***************************************************************************)
(* Verification model of the vertex-rigging tool.                          *)
(*                                                                         *)
(*  - ModelEditorLasso (components/ModelEditorLasso.js): the lasso         *)
(*    selection engine, driven by mouse events.                            *)
(*  - useSkeletonGenerator (hooks/useSkeletonGenerator.js): the generation *)
(*    orchestrator, driven by prepare / generate / cancel and by the       *)
(*    outcome of the request to /api/generate-joints.                      *)
(*                                                                         *)
(*  - LassoController (unnamed/part_005): creates the engine and disposes  *)
(*    of it in the cleanup of its effect.                                  *)
(*  - AttributeSetter (components/AttributeSetter.js): assigns the         *)
(*    selection to a named vertex group of the mesh.                       *)
(*                                                                         *)
(*  - samplePrecomputedPositions (utils/meshUtils.js): the vertex sampler. *)
(*  - createBones, calculateNearestBoneWeights, createAndBindSkeleton      *)
(*    (top_level_instructions.txt): the skeleton synthesizer.              *)
(*                                                                         *)
(*  - sampleVertexPositions (utils/samplingUtils.js): the sampler of the   *)
(*    editor page; handleContinueToAnimation (pages/editor.js); the        *)
(*    joint-suggestion handler (pages/api/generate-joints.js).             *)
(*                                                                         *)
(* Each component has its own specification (LassoSpec, ControllerSpec,    *)
(* SetterSpec, SamplerSpec, RigSpec, ContainSpec, PickSpec, EditorSpec,    *)
(* HandlerSpec, Spec, AnsweredSpec, UISpec, ResponseSpec); the variables   *)
(* of the other components keep their initial values.                      *)
(***************************************************************************)
EXTENDS Integers, Sequences, FiniteSets, TLC

VARIABLES
    \* ---- ModelEditorLasso fields ----
    isSelecting,        \* this._isSelecting
    lassoPoints,        \* this._lassoPoints : sequence of [x, y]
    selectedVertices,   \* this.selectedVertices : set of vertex indices
    listeners,          \* event types with a listener attached on domElement
    meshValid,          \* mesh && mesh.geometry && mesh.geometry.attributes.position
    \* ---- observation of the last lasso handler ----
    notes,              \* arguments of onSelectionChange calls made by the last handler
    tested,             \* vertex indices classified by the last handler
    lastEvent,          \* the event the last handler received, and _isSelecting before it
    gesture,            \* positions of the events received since the last primary mousedown
    finals,             \* <<final selection of the previous gesture, of the last gesture>>
    \* ---- useSkeletonGenerator state ----
    isPreparing, showPrompt, prompt, isLoading, error,
    generatedSkeleton, skinnedGeometry, preparedData,
    \* ---- environment of the orchestrator ----
    geoms,              \* heap of geometry clones made by prepare: clone id -> geometry
    liveGeometry,       \* mesh.geometry of each mesh prepare is called with: name -> geometry
    skeletons,          \* heap of skeletons made by generate: skeleton id -> bones
    inFlight,           \* requests awaiting the suggestion service
    sent,               \* number of requests sent to the service so far
    lastOp,             \* the last orchestrator operation and what it captured
    lastDone,           \* result of the most recent successful generation
    \* ---- AttributeSetter state and the mesh data it writes ----
    attributeName,      \* useState(''): the text of the name input, a sequence of characters
    isProcessing,
    feedback,
    feedbackTimers,     \* pending setTimeout(() => setFeedback(''), 3000) callbacks
    vertexGroups,       \* mesh.userData.vertexGroups in key order: <<[name, indices]>>
    attributes,         \* the custom_<name> attributes of mesh.geometry: <<[name, values]>>
    lastSet,            \* the last handleSetAttribute call: outcome, inputs, the group before
    \* ---- one call of samplePrecomputedPositions ----
    samplerPc,          \* "idle", "loop" (at the while test) or "returned"
    samplerArgs,        \* vertexDataArray, samplingRatio, maxCount as passed
    targetSize,
    attempts,
    sampledInputIndices,
    sampledPositions,   \* the positions pushed, each named by the index of its record
    \* ---- createAndBindSkeleton called on a geometry ----
    rigGeometry,        \* the geometry passed: positions, skin attributes, userData.skeleton
    rigSkeleton,        \* the bones of the skeleton the last call returned (<<>>: null)
    rigCall,            \* the last call: its joints and the geometry as it was passed
    \* ---- _isPointInLasso called on a path ----
    testPath,           \* this._lassoPoints as the call finds it
    testPoint,          \* the point passed
    testResult,         \* the value returned, and the divisors yj - yi it divided by
    \* ---- one call of sampleVertexPositions ----
    vertexPc,           \* "idle", "loop" (at the while test) or "returned"
    indicesArray,       \* Array.from(selectedIndices)
    positionCount,      \* positionAttribute.count
    sampleSize,
    sampledIndices,
    passes,             \* passes of the while loop made by the call, modulo 2
    \* ---- the editor page and the model context ----
    route,              \* the page shown: "/editor" or "/animation"
    contextVertexData,  \* groupedVertexData of ModelProvider: isNull, or its records
    modelGeometry,      \* useState(null) of ModelProvider: whether a clone is stored
    alertText,          \* the text of the last alert ("": none)
    \* ---- one request to the joint-suggestion handler (pages/api) ----
    handlerPc,          \* "idle", "awaiting" (at the await of fetch), "returned" or "threw"
    handlerReq,         \* the request: method, body, and whether the API key is set
    responses,          \* what the handler has sent with res.status(..).json(..)
    upstreamCalls       \* calls of fetch(CLAUDE_API_URL) made for the request

lassoVars == <<isSelecting, lassoPoints, selectedVertices, listeners, meshValid,
               notes, tested, lastEvent, gesture, finals>>
genVars == <<isPreparing, showPrompt, prompt, isLoading, error,
             generatedSkeleton, skinnedGeometry, preparedData,
             geoms, liveGeometry, skeletons, inFlight, sent, lastOp, lastDone>>
setterVars == <<attributeName, isProcessing, feedback, feedbackTimers,
                vertexGroups, attributes, lastSet>>
samplerVars == <<samplerPc, samplerArgs, targetSize, attempts, sampledInputIndices,
                 sampledPositions>>
rigVars == <<rigGeometry, rigSkeleton, rigCall>>
containVars == <<testPath, testPoint, testResult>>
pickVars == <<vertexPc, indicesArray, positionCount, sampleSize, sampledIndices, passes>>
editorVars == <<route, contextVertexData, modelGeometry, alertText>>
handlerVars == <<handlerPc, handlerReq, responses, upstreamCalls>>
auxVars == <<containVars, pickVars, editorVars, handlerVars>>
vars == <<lassoVars, genVars, setterVars, samplerVars, rigVars, auxVars>>

Null == "null"          \* null, where the other values are strings
NoRef == 0              \* null, where the other values are object ids (1, 2, ...)

(***************************************************************************)
(* Bounds                                                                  *)
(***************************************************************************)
MaxPath == 4          \* longest lasso path (down, moves, up)
MaxClones == 1        \* geometry clones taken by prepare
MaxRequests == 2      \* requests sent to the suggestion service
MaxTimers == 2        \* feedback timeouts pending at once
MaxRecords == 3       \* longest vertexDataArray given to the sampler

(***************************************************************************)
(* The render surface and the mesh seen through the camera                 *)
(***************************************************************************)
RectLeft == 1         \* getBoundingClientRect().left
RectTop == 1          \* getBoundingClientRect().top
CanvasWidth == 5      \* domElement.clientWidth
CanvasHeight == 5     \* domElement.clientHeight
NdcDen == 2           \* projected coordinates are given in units of 1/NdcDen

\* vertex.applyMatrix4(matrixWorld).project(camera) of each vertex of the
\* position buffer, in units of 1/NdcDen (vertex index i is MeshNdc[i + 1]).
MeshNdc == << [x |-> -1, y |->  1, z |-> 0],
              [x |->  1, y |-> -1, z |-> 0],
              [x |->  0, y |->  0, z |-> 1],
              [x |-> -1, y |->  1, z |-> 2] >>
VertexCount == Len(MeshNdc)

\* Math.round of the rational num/den (den > 0): nearest integer, halves up.
MathRound(num, den) == (2 * num + den) \div (2 * den)

\* screenPos.x = Math.round(((p.x + 1) / 2) * canvasWidth)
ScreenX(p) == MathRound((p.x + NdcDen) * CanvasWidth, 2 * NdcDen)
\* screenPos.y = Math.round(((1 - p.y) / 2) * canvasHeight)
ScreenY(p) == MathRound((NdcDen - p.y) * CanvasHeight, 2 * NdcDen)

DepthVisible_NearOnly(p) == p.z > -NdcDen

\* projectedVertex.z > -1 && projectedVertex.z < 1
DepthVisible(p) == p.z > -NdcDen /\ p.z < NdcDen

(***************************************************************************)
(* Mouse events                                                            *)
(***************************************************************************)
Buttons == {0, 2}
ClientXs == {RectLeft, RectLeft + CanvasWidth}
ClientYs == {RectTop, RectTop + CanvasHeight}
MouseEvents == [button : Buttons, clientX : ClientXs, clientY : ClientYs]

\* _addLassoPoint: the event position relative to the bounding rectangle.
AddLassoPoint(points, ev) ==
    Append(points, [x |-> ev.clientX - RectLeft, y |-> ev.clientY - RectTop])

(***************************************************************************)
(* _isPointInLasso: ray casting over the path, for (i = 0, j = n - 1; ...) *)
(***************************************************************************)
\* point.x < (xj - xi) * (point.y - yi) / (yj - yi) + xi, evaluated only when
\* yi # yj.  The operands are small integers, so the floating-point value
\* compares with point.x as the exact rational does.
LeftOfCrossing_Unsigned(point, pi, pj) ==
    (point.x - pi.x) * (pj.y - pi.y) < (pj.x - pi.x) * (point.y - pi.y)

LeftOfCrossing(point, pi, pj) ==
    LET den == pj.y - pi.y
        num == (pj.x - pi.x) * (point.y - pi.y)
    IN  IF den > 0 THEN (point.x - pi.x) * den < num
                   ELSE (point.x - pi.x) * den > num

Straddles_Always(point, pi, pj) == TRUE

\* (yi > point.y) !== (yj > point.y): the left operand of &&; the right one,
\* with its division, is evaluated only when this holds.
Straddles(point, pi, pj) == (pi.y > point.y) # (pj.y > point.y)

Intersect(point, pi, pj) ==
    /\ Straddles(point, pi, pj)
    /\ LeftOfCrossing(point, pi, pj)

\* The divisors yj - yi of the divisions one call evaluates.
RECURSIVE Divisors(_, _, _, _)
Divisors(point, points, i, j) ==
    IF i > Len(points) THEN {}
    ELSE (IF Straddles(point, points[i], points[j]) THEN {points[j].y - points[i].y}
          ELSE {})
         \cup Divisors(point, points, i + 1, i)

RECURSIVE RayCast(_, _, _, _, _)
RayCast(point, points, i, j, inside) ==
    IF i > Len(points) THEN inside
    ELSE RayCast(point, points, i + 1, i,
                 IF Intersect(point, points[i], points[j]) THEN ~inside ELSE inside)

IsPointInLasso(point, points) ==
    IF Len(points) = 0 THEN FALSE
    ELSE RayCast(point, points, 1, Len(points), FALSE)

(***************************************************************************)
(* _selectVertices: adds to the selection every vertex of the position     *)
(* buffer that is visible and inside the path.  Returns the selection and  *)
(* the vertices it tested.                                                 *)
(***************************************************************************)
RECURSIVE SelectLoop(_, _, _, _)
SelectLoop(i, sel, seen, points) ==
    IF i >= VertexCount THEN [sel |-> sel, tested |-> seen]
    ELSE LET p == MeshNdc[i + 1]
             screenPos == [x |-> ScreenX(p), y |-> ScreenY(p)]
             hit == DepthVisible(p) /\ IsPointInLasso(screenPos, points)
         IN  SelectLoop(i + 1, IF hit THEN sel \cup {i} ELSE sel,
                        seen \cup {i}, points)

SelectVertices(sel, points, valid) ==
    IF ~valid THEN [sel |-> sel, tested |-> {}]
    ELSE SelectLoop(0, sel, {}, points)

(***************************************************************************)
(* Handlers of ModelEditorLasso.  Each returns the new fields and the      *)
(* notifications it made.                                                  *)
(***************************************************************************)
LassoFields == [isSelecting |-> isSelecting, lassoPoints |-> lassoPoints,
                selectedVertices |-> selectedVertices, listeners |-> listeners,
                notes |-> <<>>, tested |-> {}]

\* Variants of the handlers, each with one plausible slip.
OnMouseDown_AnyButton(ev) ==
    [isSelecting |-> TRUE,
     lassoPoints |-> AddLassoPoint(<<>>, ev),
     selectedVertices |-> {},
     listeners |-> listeners \cup {"mousemove", "mouseup"},
     notes |-> IF Cardinality(selectedVertices) > 0 THEN << {} >> ELSE <<>>,
     tested |-> {}]

OnMouseDown_KeepSelection(ev) ==
    IF ev.button # 0 THEN LassoFields
    ELSE [isSelecting |-> TRUE,
          lassoPoints |-> AddLassoPoint(<<>>, ev),
          selectedVertices |-> selectedVertices,
          listeners |-> listeners \cup {"mousemove", "mouseup"},
          notes |-> <<>>,
          tested |-> {}]

OnMouseDown_KeepPath(ev) ==
    IF ev.button # 0 THEN LassoFields
    ELSE [isSelecting |-> TRUE,
          lassoPoints |-> AddLassoPoint(lassoPoints, ev),
          selectedVertices |-> {},
          listeners |-> listeners \cup {"mousemove", "mouseup"},
          notes |-> IF Cardinality(selectedVertices) > 0 THEN << {} >> ELSE <<>>,
          tested |-> {}]

OnMouseDown(ev) ==
    IF ev.button # 0 THEN LassoFields
    ELSE [isSelecting |-> TRUE,
          lassoPoints |-> AddLassoPoint(<<>>, ev),
          selectedVertices |-> {},
          listeners |-> listeners \cup {"mousemove", "mouseup"},
          notes |-> IF Cardinality(selectedVertices) > 0 THEN << {} >> ELSE <<>>,
          tested |-> {}]

OnMouseMove(ev) ==
    IF ~isSelecting THEN LassoFields
    ELSE [LassoFields EXCEPT !.lassoPoints = AddLassoPoint(lassoPoints, ev)]

OnMouseUp_SilentWhenEmpty(ev) ==
    IF ~isSelecting THEN LassoFields
    ELSE LET points == AddLassoPoint(lassoPoints, ev)
             r == IF Len(points) > 2
                  THEN SelectVertices(selectedVertices, points, meshValid)
                  ELSE [sel |-> {}, tested |-> {}]
         IN  [isSelecting |-> FALSE,
              lassoPoints |-> IF Len(points) > 2 THEN points ELSE <<>>,
              selectedVertices |-> r.sel,
              listeners |-> listeners \ {"mousemove", "mouseup"},
              notes |-> IF r.sel = {} THEN <<>> ELSE << r.sel >>,
              tested |-> r.tested]

OnMouseUp_ClassifyShort(ev) ==
    IF ~isSelecting THEN LassoFields
    ELSE LET points == AddLassoPoint(lassoPoints, ev)
             r == IF Len(points) > 1
                  THEN SelectVertices(selectedVertices, points, meshValid)
                  ELSE [sel |-> {}, tested |-> {}]
         IN  [isSelecting |-> FALSE,
              lassoPoints |-> IF Len(points) > 1 THEN points ELSE <<>>,
              selectedVertices |-> r.sel,
              listeners |-> listeners \ {"mousemove", "mouseup"},
              notes |-> << r.sel >>,
              tested |-> r.tested]

OnMouseUp(ev) ==
    IF ~isSelecting THEN LassoFields
    ELSE LET points == AddLassoPoint(lassoPoints, ev)
             r == IF Len(points) > 2
                  THEN SelectVertices(selectedVertices, points, meshValid)
                  ELSE [sel |-> {}, tested |-> {}]
         IN  [isSelecting |-> FALSE,
              lassoPoints |-> IF Len(points) > 2 THEN points ELSE <<>>,
              selectedVertices |-> r.sel,
              listeners |-> listeners \ {"mousemove", "mouseup"},
              notes |-> << r.sel >>,
              tested |-> r.tested]

Apply(f) ==
    /\ isSelecting' = f.isSelecting
    /\ lassoPoints' = f.lassoPoints
    /\ selectedVertices' = f.selectedVertices
    /\ listeners' = f.listeners
    /\ notes' = f.notes
    /\ tested' = f.tested

Observe(type, ev) ==
    lastEvent' = [type |-> type, button |-> ev.button,
                  x |-> ev.clientX - RectLeft, y |-> ev.clientY - RectTop,
                  wasSelecting |-> isSelecting]

MouseDown(ev) ==
    /\ "mousedown" \in listeners
    /\ Apply(OnMouseDown(ev))
    /\ Observe("mousedown", ev)
    /\ gesture' = IF ev.button = 0 THEN AddLassoPoint(<<>>, ev) ELSE gesture
    /\ UNCHANGED <<meshValid, finals>>
    /\ UNCHANGED <<genVars, setterVars, samplerVars, rigVars, auxVars>>

MouseMove(ev) ==
    /\ "mousemove" \in listeners
    /\ Len(lassoPoints) < MaxPath - 1
    /\ Apply(OnMouseMove(ev))
    /\ Observe("mousemove", ev)
    /\ gesture' = AddLassoPoint(gesture, ev)
    /\ UNCHANGED <<meshValid, finals>>
    /\ UNCHANGED <<genVars, setterVars, samplerVars, rigVars, auxVars>>

MouseUp(ev) ==
    /\ "mouseup" \in listeners
    /\ Apply(OnMouseUp(ev))
    /\ Observe("mouseup", ev)
    /\ gesture' = AddLassoPoint(gesture, ev)
    /\ finals' = IF isSelecting THEN <<finals[2], selectedVertices'>> ELSE finals
    /\ UNCHANGED meshValid
    /\ UNCHANGED <<genVars, setterVars, samplerVars, rigVars, auxVars>>

\* dispose(): removes the three listeners; the fields are left as they are.
Dispose ==
    /\ "mousedown" \in listeners
    /\ listeners' = {}
    /\ notes' = <<>>
    /\ tested' = {}
    /\ lastEvent' = [type |-> "dispose", button |-> 0, x |-> 0, y |-> 0,
                     wasSelecting |-> isSelecting]
    /\ UNCHANGED <<isSelecting, lassoPoints, selectedVertices, meshValid, gesture, finals>>
    /\ UNCHANGED <<genVars, setterVars, samplerVars, rigVars, auxVars>>

LassoNext ==
    \/ \E ev \in MouseEvents : MouseDown(ev)
    \/ \E ev \in MouseEvents : MouseMove(ev)
    \/ \E ev \in MouseEvents : MouseUp(ev)
    \/ Dispose

(***************************************************************************)
(* LassoController (unnamed/part_005): owns the one ModelEditorLasso and   *)
(* disposes of it in the cleanup of its effect.  Both the engine's         *)
(* observer (handleInternalSelectionChange) and the cleanup call the       *)
(* parent's onSelectionChange, whose arguments notes records.              *)
(***************************************************************************)
\* dispose() has run: the constructor attaches the mousedown listener and
\* only dispose() removes it.
Disposed == "mousedown" \notin listeners

EffectCleanup_KeepsDragListeners ==
    /\ ~Disposed
    /\ listeners' = listeners \ {"mousedown"}
    /\ notes' = << {} >>
    /\ tested' = {}
    /\ lastEvent' = [type |-> "cleanup", button |-> 0, x |-> 0, y |-> 0,
                     wasSelecting |-> isSelecting]
    /\ UNCHANGED <<isSelecting, lassoPoints, selectedVertices, meshValid, gesture, finals>>
    /\ UNCHANGED <<genVars, setterVars, samplerVars, rigVars, auxVars>>

\* The cleanup returned by the effect (lines 144-151):
\* lassoInstanceRef.current.dispose(), then onSelectionChange(new Set()).
EffectCleanup ==
    /\ ~Disposed
    /\ listeners' = {}
    /\ notes' = << {} >>
    /\ tested' = {}
    /\ lastEvent' = [type |-> "cleanup", button |-> 0, x |-> 0, y |-> 0,
                     wasSelecting |-> isSelecting]
    /\ UNCHANGED <<isSelecting, lassoPoints, selectedVertices, meshValid, gesture, finals>>
    /\ UNCHANGED <<genVars, setterVars, samplerVars, rigVars, auxVars>>

\* A mouse event on the canvas after the engine was disposed of, of a type
\* that has no listener left: no handler runs.
EventTypes == {"mousedown", "mousemove", "mouseup"}
Undelivered(type, ev) ==
    /\ Disposed
    /\ type \notin listeners
    /\ lastEvent' = [type |-> type, button |-> ev.button,
                     x |-> ev.clientX - RectLeft, y |-> ev.clientY - RectTop,
                     wasSelecting |-> isSelecting]
    /\ UNCHANGED <<isSelecting, lassoPoints, selectedVertices, listeners, meshValid,
                   notes, tested, gesture, finals>>
    /\ UNCHANGED <<genVars, setterVars, samplerVars, rigVars, auxVars>>

ControllerNext ==
    \/ \E ev \in MouseEvents : MouseDown(ev)
    \/ \E ev \in MouseEvents : MouseMove(ev)
    \/ \E ev \in MouseEvents : MouseUp(ev)
    \/ EffectCleanup
    \/ \E type \in EventTypes : \E ev \in MouseEvents : Undelivered(type, ev)

(***************************************************************************)
(* Data of the generation orchestrator                                     *)
(***************************************************************************)
\* Prompt texts are sequences of characters; " " is whitespace.
\* The texts typed: empty, whitespace only, and a text with whitespace around it.
PromptTexts == { <<>>, << " " >>, << " ", "w", " " >> }

\* The white space characters (of trim() and of \s) that the inputs use.
Whitespace == {" ", "\t"}

RECURSIVE TrimStart(_)
TrimStart(s) == IF Len(s) > 0 /\ Head(s) \in Whitespace THEN TrimStart(Tail(s)) ELSE s
RECURSIVE TrimEnd(_)
TrimEnd(s) ==
    IF Len(s) > 0 /\ s[Len(s)] \in Whitespace THEN TrimEnd(SubSeq(s, 1, Len(s) - 1)) ELSE s
Trim_Nothing(s) == s
\* String.prototype.trim
Trim(s) == TrimEnd(TrimStart(s))

Vec(x, y, z) == [x |-> x, y |-> y, z |-> z]

\* The meshes prepare is called with: hasPosition is
\* mesh && mesh.geometry && mesh.geometry.attributes.position; positions is
\* the position buffer; groups is mesh.userData.vertexGroups in key order.
LinePositions == << Vec(0, 0, 0), Vec(1, 0, 0), Vec(2, 0, 0) >>
MeshInputs ==
    { [name |-> "none", hasPosition |-> FALSE, positions |-> <<>>, groups |-> <<>>],
      [name |-> "bare", hasPosition |-> TRUE, positions |-> LinePositions, groups |-> <<>>],
      [name |-> "stale", hasPosition |-> TRUE, positions |-> LinePositions,
       groups |-> << [name |-> "arm", indices |-> <<5>>] >>],
      [name |-> "one", hasPosition |-> TRUE, positions |-> LinePositions,
       groups |-> << [name |-> "arm", indices |-> <<0>>] >>],
      [name |-> "two", hasPosition |-> TRUE, positions |-> LinePositions,
       groups |-> << [name |-> "arm", indices |-> <<1>>],
                     [name |-> "leg", indices |-> <<1, 7, 2>>] >>] }

\* prepare, lines 55-72: one record per group and member index below
\* positionAttribute.count (the record's position is that vertex's world
\* position, a function of the mesh and the index, and is not repeated here).
FlattenGroup_NoRangeCheck(groupName, indices, k, count, groupedData) ==
    groupedData \o [j \in 1..Len(indices) |->
                      [group |-> groupName, vertexIndex |-> indices[j]]]

RECURSIVE FlattenGroup(_, _, _, _, _)
FlattenGroup(groupName, indices, k, count, groupedData) ==
    IF k > Len(indices) THEN groupedData
    ELSE FlattenGroup(groupName, indices, k + 1, count,
            IF indices[k] < count
            THEN Append(groupedData, [group |-> groupName, vertexIndex |-> indices[k]])
            ELSE groupedData)

RECURSIVE FlattenGroups(_, _, _, _)
FlattenGroups(groups, g, count, groupedData) ==
    IF g > Len(groups) THEN groupedData
    ELSE FlattenGroups(groups, g + 1, count,
            FlattenGroup(groups[g].name, groups[g].indices, 1, count, groupedData))

Flatten(mesh) == FlattenGroups(mesh.groups, 1, Len(mesh.positions), <<>>)

(***************************************************************************)
(* samplePrecomputedPositions as generate uses it: the sizes its result    *)
(* can have.  The first draw always adds a record, and any later draw may  *)
(* repeat an index already drawn, so every size from 1 to the target is    *)
(* possible.                                                               *)
(***************************************************************************)
SamplingRatioNum == 1     \* samplingRatio = 0.5 = SamplingRatioNum / SamplingRatioDen
SamplingRatioDen == 2
MaxSamples == 100

Min(a, b) == IF a < b THEN a ELSE b
\* Math.ceil of num/den, den > 0
Ceil(num, den) == (num + den - 1) \div den

TargetSize(total) ==
    Min(Min(Ceil(total * SamplingRatioNum, SamplingRatioDen), total), MaxSamples)

SampleSizes(groupedVertexData) ==
    IF Len(groupedVertexData) = 0 THEN {0}
    ELSE 1..TargetSize(Len(groupedVertexData))

(***************************************************************************)
(* riggingUtils: createBones, calculateNearestBoneWeights,                 *)
(* createAndBindSkeleton                                                   *)
(***************************************************************************)
\* A coordinate that is no number: a joint of the response that lacks a
\* numeric x, y or z gives undefined to Vector3.set, and every sum,
\* difference and product with it is NaN.  The numbers of the model are
\* small integers; NaN is a value none of them reaches.
NaN == -1000
Minus(a, b) == IF a = NaN \/ b = NaN THEN NaN ELSE a - b
Plus(a, b) == IF a = NaN \/ b = NaN THEN NaN ELSE a + b
IsNumeric(v) == v.x # NaN /\ v.y # NaN /\ v.z # NaN

RECURSIVE CreateBonesLoop_Chain(_, _, _)
CreateBonesLoop_Chain(jointPositions, i, bones) ==
    IF i > Len(jointPositions) THEN bones
    ELSE LET pos == jointPositions[i]
             previous == jointPositions[i - 1]
         IN  CreateBonesLoop_Chain(jointPositions, i + 1,
                Append(bones, [position |-> Vec(Minus(pos.x, previous.x),
                                                 Minus(pos.y, previous.y),
                                                 Minus(pos.z, previous.z)),
                               parent |-> i - 1]))

\* createBones: bone 1 is the root at joint 1; every later bone is a child
\* of the root with position joint - root.position.  parent 0: no parent.
RECURSIVE CreateBonesLoop(_, _, _)
CreateBonesLoop(jointPositions, i, bones) ==
    IF i > Len(jointPositions) THEN bones
    ELSE LET pos == jointPositions[i]
             first == bones[1].position
         IN  CreateBonesLoop(jointPositions, i + 1,
                Append(bones, [position |-> Vec(Minus(pos.x, first.x),
                                                 Minus(pos.y, first.y),
                                                 Minus(pos.z, first.z)),
                               parent |-> 1]))

CreateBones(jointPositions) ==
    IF Len(jointPositions) = 0 THEN <<>>
    ELSE CreateBonesLoop(jointPositions, 2,
            << [position |-> jointPositions[1], parent |-> 0] >>)

BoneWorldPosition_Local(bones, j) == bones[j].position

\* bone.getWorldPosition: the bone's position composed with its parent's.
BoneWorldPosition(bones, j) ==
    IF bones[j].parent = 0 THEN bones[j].position
    ELSE LET q == bones[bones[j].parent].position
             p == bones[j].position
         IN  Vec(Plus(q.x, p.x), Plus(q.y, p.y), Plus(q.z, p.z))

\* Vector3.distanceToSquared
DistanceToSquared(a, b) ==
    IF ~IsNumeric(a) \/ ~IsNumeric(b) THEN NaN
    ELSE (a.x - b.x) * (a.x - b.x) + (a.y - b.y) * (a.y - b.y)
            + (a.z - b.z) * (a.z - b.z)

\* distanceSq < minDistanceSq (line 147), minDistanceSq being Infinity
\* until a bone is taken (nearestBoneIndex 0 stands for -1): a comparison
\* with NaN is false.
CloserThan_OrEqual(distanceSq, nearestBoneIndex, minDistanceSq) ==
    distanceSq # NaN /\ (nearestBoneIndex = 0 \/ distanceSq <= minDistanceSq)

CloserThan(distanceSq, nearestBoneIndex, minDistanceSq) ==
    distanceSq # NaN /\ (nearestBoneIndex = 0 \/ distanceSq < minDistanceSq)

\* lines 142-151: the first bone at the least distance; 0 stands for -1.
RECURSIVE NearestBone(_, _, _, _, _)
NearestBone(vertex, bones, j, nearestBoneIndex, minDistanceSq) ==
    IF j > Len(bones) THEN nearestBoneIndex
    ELSE LET distanceSq == DistanceToSquared(vertex, BoneWorldPosition(bones, j))
         IN  IF CloserThan(distanceSq, nearestBoneIndex, minDistanceSq)
             THEN NearestBone(vertex, bones, j + 1, j, distanceSq)
             ELSE NearestBone(vertex, bones, j + 1, nearestBoneIndex, minDistanceSq)

\* calculateNearestBoneWeights: the skinIndex and skinWeight attributes, four
\* slots per vertex; bone indices are those of the code (from 0).
CalculateNearestBoneWeights(positions, bones) ==
    LET nearest(i) == NearestBone(positions[i], bones, 1, 0, 0)
    IN  [skinIndex |-> [i \in 1..Len(positions) |->
                          IF nearest(i) # 0 THEN << nearest(i) - 1, 0, 0, 0 >>
                                            ELSE << 0, 0, 0, 0 >>],
         skinWeight |-> [i \in 1..Len(positions) |->
                          IF nearest(i) # 0 THEN << 1, 0, 0, 0 >>
                                            ELSE << 0, 0, 0, 0 >>]]

\* A geometry: its position buffer and, once skinned, its skin attributes
\* and userData.skeleton (a skeleton id).
Geometry(mesh) ==
    [mesh |-> mesh.name, positions |-> mesh.positions,
     skinIndex |-> <<>>, skinWeight |-> <<>>, skeleton |-> NoRef]

CreateAndBindSkeleton_NoJointCheck(geometry, jointPositions, skeletonId) ==
    LET bones == CreateBones(jointPositions)
        w == CalculateNearestBoneWeights(geometry.positions, bones)
    IN  [bones |-> bones,
         geometry |-> [geometry EXCEPT !.skinIndex = w.skinIndex,
                                       !.skinWeight = w.skinWeight,
                                       !.skeleton = skeletonId]]

\* The geometries of the meshes prepare is called with, and references to
\* geometry objects: a clone is its index in geoms, the geometry of the
\* k-th mesh itself is -k.
MeshNames == << "none", "bare", "stale", "one", "two" >>
LiveGeometries ==
    [n \in {m.name : m \in MeshInputs} |-> Geometry(CHOOSE m \in MeshInputs : m.name = n)]
LiveRef(mesh) == 0 - (CHOOSE k \in 1..Len(MeshNames) : MeshNames[k] = mesh.name)
GeometryAt(ref) == IF ref > 0 THEN geoms[ref] ELSE liveGeometry[MeshNames[0 - ref]]

CloneGeometry_SameObject(mesh) == [ref |-> LiveRef(mesh), clones |-> geoms]

\* mesh.geometry.clone() (useSkeletonGenerator.js line 82): a new geometry
\* object with copies of the attributes.  BufferGeometry.copy assigns
\* userData by reference, so the clone carries the userData of the mesh's
\* geometry, the skeleton reference in it included.
CloneGeometry(mesh) ==
    [ref |-> Len(geoms) + 1, clones |-> Append(geoms, liveGeometry[mesh.name])]

\* The geometry objects after createAndBindSkeleton has skinned the one at
\* ref: its attributes are set on that object alone; userData.skeleton is
\* set on the userData object, which the geometry of the mesh and all its
\* clones share.
WithSkeleton(geometry, ref, at, bound) ==
    IF at = ref THEN bound.geometry
    ELSE IF geometry.mesh = bound.geometry.mesh
         THEN [geometry EXCEPT !.skeleton = bound.geometry.skeleton]
    ELSE geometry
SkinnedClones(ref, bound) ==
    [g \in DOMAIN geoms |-> WithSkeleton(geoms[g], ref, g, bound)]
SkinnedLive(ref, bound) ==
    [n \in DOMAIN liveGeometry |->
        WithSkeleton(liveGeometry[n], ref,
                     LiveRef(CHOOSE m \in MeshInputs : m.name = n), bound)]

\* createAndBindSkeleton(geometry, jointPositions): the bones of the created
\* skeleton (<<>> when it returns null) and the geometry as it leaves it.
CreateAndBindSkeleton(geometry, jointPositions, skeletonId) ==
    LET bones == CreateBones(jointPositions)
    IN  IF Len(jointPositions) = 0 \/ Len(bones) = 0
        THEN [bones |-> <<>>, geometry |-> geometry]
        ELSE LET w == CalculateNearestBoneWeights(geometry.positions, bones)
             IN  [bones |-> bones,
                  geometry |-> [geometry EXCEPT !.skinIndex = w.skinIndex,
                                                !.skinWeight = w.skinWeight,
                                                !.skeleton = skeletonId]]

(***************************************************************************)
(* useSkeletonGenerator                                                    *)
(*                                                                         *)
(* null is <<>> for groupedVertexData (generate treats null and the empty  *)
(* array alike, line 102, and prepare stores no empty array), NoRef for    *)
(* geometryClone, generatedSkeleton and skinnedGeometry, Null for error.   *)
(***************************************************************************)
PrepareError_NoGroupCheck(mesh) ==
    IF ~mesh.hasPosition THEN "Model mesh data is not available."
    ELSE IF Len(Flatten(mesh)) = 0
         THEN "No vertices associated with the defined groups. Please re-assign attributes."
    ELSE Null

PrepareError_NoVertexCheck(mesh) ==
    IF ~mesh.hasPosition THEN "Model mesh data is not available."
    ELSE IF Len(mesh.groups) = 0
         THEN "Please define at least one vertex group using the Attribute Setter."
    ELSE Null

\* prepare, lines 34-79: the error of a mesh that fails validation, or Null.
PrepareError(mesh) ==
    IF ~mesh.hasPosition THEN "Model mesh data is not available."
    ELSE IF Len(mesh.groups) = 0
         THEN "Please define at least one vertex group using the Attribute Setter."
    ELSE IF Len(Flatten(mesh)) = 0
         THEN "No vertices associated with the defined groups. Please re-assign attributes."
    ELSE Null

\* prepare(mesh).  isPreparing is set at entry and reset before every
\* return of this synchronous function.
Prepare(mesh) ==
    /\ PrepareError(mesh) = Null => Len(geoms) < MaxClones
    /\ isPreparing' = FALSE
    /\ generatedSkeleton' = NoRef
    /\ skinnedGeometry' = NoRef
    /\ IF PrepareError(mesh) # Null
       THEN /\ error' = PrepareError(mesh)
            /\ preparedData' = [groupedVertexData |-> <<>>, geometryClone |-> NoRef]
            /\ UNCHANGED <<showPrompt, geoms>>
       ELSE /\ error' = Null
            /\ geoms' = CloneGeometry(mesh).clones
            /\ preparedData' = [groupedVertexData |-> Flatten(mesh),
                                geometryClone |-> CloneGeometry(mesh).ref]
            /\ showPrompt' = TRUE
    /\ UNCHANGED liveGeometry
    /\ lastOp' = [op |-> "prepare", kind |-> IF PrepareError(mesh) = Null THEN "ok" ELSE "invalid"]
    /\ UNCHANGED <<prompt, isLoading, skeletons, inFlight, sent, lastDone>>
    /\ UNCHANGED <<lassoVars, setterVars, samplerVars, rigVars, auxVars>>

\* setPrompt(text)
SetPrompt(text) ==
    /\ prompt' = text
    /\ lastOp' = [op |-> "setPrompt", kind |-> "none"]
    /\ UNCHANGED <<isPreparing, showPrompt, isLoading, error, generatedSkeleton,
                   skinnedGeometry, preparedData, geoms, liveGeometry, skeletons, inFlight, sent,
                   lastDone>>
    /\ UNCHANGED <<lassoVars, setterVars, samplerVars, rigVars, auxVars>>

\* generate, lines 101-116: the error of the failed input check, or Null.
GenerateInputError(data, text) ==
    IF Len(data.groupedVertexData) = 0
    THEN "Grouped vertex data not found or empty. Please prepare data again."
    ELSE IF data.geometryClone = NoRef
         THEN "Model geometry not found. Please prepare data again."
    ELSE IF Len(Trim(text)) = 0
         THEN "Please enter an animation prompt."
    ELSE Null

\* generate() up to its await of fetch (lines 94-138), with the preparedData
\* and prompt of the render it was created in.  A request keeps what the
\* continuation of the call holds: the geometry clone.
Generate ==
    LET inputError == GenerateInputError(preparedData, prompt)
    IN  /\ inputError = Null => sent < MaxRequests
        /\ generatedSkeleton' = NoRef
        /\ skinnedGeometry' = NoRef
        /\ IF inputError # Null
           THEN /\ error' = inputError
                /\ isLoading' = FALSE
                /\ lastOp' = [op |-> "generate", kind |-> "input"]
                /\ UNCHANGED <<inFlight, sent>>
           ELSE \E size \in SampleSizes(preparedData.groupedVertexData) :
                  IF size = 0
                  THEN /\ error' = "Failed to sample any vertex positions."
                       /\ isLoading' = FALSE
                       /\ lastOp' = [op |-> "generate", kind |-> "sample"]
                       /\ UNCHANGED <<inFlight, sent>>
                  ELSE /\ error' = Null
                       /\ isLoading' = TRUE
                       /\ sent' = sent + 1
                       /\ inFlight' = inFlight \cup
                             { [id |-> sent + 1,
                                geometryClone |-> preparedData.geometryClone,
                                sampledVertices |-> size,
                                animationPrompt |-> Trim(prompt)] }
                       /\ lastOp' = [op |-> "generate", kind |-> "sent"]
        /\ UNCHANGED <<isPreparing, showPrompt, prompt, preparedData, geoms, liveGeometry, skeletons,
                       lastDone>>
        /\ UNCHANGED <<lassoVars, setterVars, samplerVars, rigVars, auxVars>>

Cancel_ClearsResults ==
    /\ showPrompt' = FALSE
    /\ error' = Null
    /\ prompt' = <<>>
    /\ generatedSkeleton' = NoRef
    /\ skinnedGeometry' = NoRef
    /\ lastOp' = [op |-> "cancel", kind |-> "none"]
    /\ UNCHANGED <<isPreparing, isLoading, preparedData, geoms, liveGeometry, skeletons, inFlight,
                   sent, lastDone>>
    /\ UNCHANGED <<lassoVars, setterVars, samplerVars, rigVars, auxVars>>

\* cancel()
Cancel ==
    /\ showPrompt' = FALSE
    /\ error' = Null
    /\ prompt' = <<>>
    /\ lastOp' = [op |-> "cancel", kind |-> "none"]
    /\ UNCHANGED <<isPreparing, isLoading, generatedSkeleton, skinnedGeometry,
                   preparedData, geoms, liveGeometry, skeletons, inFlight, sent, lastDone>>
    /\ UNCHANGED <<lassoVars, setterVars, samplerVars, rigVars, auxVars>>

(***************************************************************************)
(* The answers of the suggestion service to one request                    *)
(***************************************************************************)
\* The joint arrays a response carries: no joint, two joints.
JointLists == { <<>>, << Vec(0, 0, 0), Vec(2, 0, 0) >> }

Outcomes ==
    \* fetch rejects (network failure) with an Error of this message
    { [kind |-> "reject", status |-> 0, text |-> m, joints |-> <<>>] :
          m \in {"Failed to fetch", ""} }
    \* a non-success status; text is the body's error field (Null: none)
    \cup { [kind |-> "status", status |-> 500, text |-> m, joints |-> <<>>] :
          m \in {"Failed to get suggestions from AI.", Null} }
    \* a success status whose body is not JSON: response.json() rejects
    \cup { [kind |-> "unparsable", status |-> 200, text |-> "Unexpected end of JSON input",
            joints |-> <<>>] }
    \* a success status whose body is JSON null, or an object that is no array
    \cup { [kind |-> k, status |-> 200, text |-> "", joints |-> <<>>] :
          k \in {"jsonNull", "jsonObject"} }
    \* a success status whose body is an array of joints
    \cup { [kind |-> "array", status |-> 200, text |-> "", joints |-> js] :
          js \in JointLists }

\* `API request failed (${response.status})`
StatusMessage(status) ==
    IF status = 500 THEN "API request failed (500)" ELSE "API request failed"

\* The message of the Error thrown in the try block before the skeleton is
\* created (lines 131-148), or Null when the joints reach line 150.
ThrownBeforeJoints(outcome) ==
    CASE outcome.kind = "reject" -> outcome.text
      [] outcome.kind = "status" ->
            IF outcome.text \notin {Null, ""} THEN outcome.text
            ELSE StatusMessage(outcome.status)
      [] outcome.kind = "unparsable" -> outcome.text
      [] OTHER -> Null

HasJoints_ExactlyFour(outcome) == outcome.kind = "array" /\ Len(outcome.joints) = 4

\* joints && joints.length > 0 (line 150)
HasJoints(outcome) == outcome.kind = "array" /\ Len(outcome.joints) > 0

\* err.message || "An unknown error occurred." (line 169)
CaughtMessage(message) ==
    IF message = "" THEN "An unknown error occurred." ELSE message

\* The catch block (lines 167-171).
Catch_KeepResults(message) ==
    /\ error' = CaughtMessage(message)
    /\ UNCHANGED <<generatedSkeleton, skinnedGeometry>>

Catch(message) ==
    /\ error' = CaughtMessage(message)
    /\ generatedSkeleton' = NoRef
    /\ skinnedGeometry' = NoRef

Settle_NoFinally(req, outcome) ==
    /\ req \in inFlight
    /\ inFlight' = inFlight \ {req}
    /\ lastOp' = [op |-> "settle", kind |-> outcome.kind]
    /\ UNCHANGED <<isPreparing, showPrompt, prompt, isLoading, error, generatedSkeleton,
                   skinnedGeometry, preparedData, geoms, liveGeometry, skeletons,
                   sent, lastDone>>
    /\ UNCHANGED <<lassoVars, setterVars, samplerVars, rigVars, auxVars>>

Settle_Retry(req, outcome) ==
    /\ req \in inFlight
    /\ sent <= MaxRequests
    /\ sent' = sent + 1
    /\ inFlight' = (inFlight \ {req}) \cup {[req EXCEPT !.id = sent + 1]}
    /\ lastOp' = [op |-> "settle", kind |-> outcome.kind]
    /\ UNCHANGED <<isPreparing, showPrompt, prompt, isLoading, error, generatedSkeleton,
                   skinnedGeometry, preparedData, geoms, liveGeometry, skeletons,
                   lastDone>>
    /\ UNCHANGED <<lassoVars, setterVars, samplerVars, rigVars, auxVars>>

\* The rest of generate() once the service has answered request req
\* (lines 140-174).  The state is written only here: the two awaits of the
\* response and of its body are taken as one step.
Settle(req, outcome) ==
    LET thrown == ThrownBeforeJoints(outcome)
        skeletonId == Len(skeletons) + 1
        bound == CreateAndBindSkeleton(GeometryAt(req.geometryClone), outcome.joints,
                                       skeletonId)
        fail(message) ==
            /\ Catch(message)
            /\ UNCHANGED <<showPrompt, geoms, liveGeometry, skeletons, lastDone>>
    IN  /\ req \in inFlight
        /\ inFlight' = inFlight \ {req}
        /\ IF thrown # Null THEN fail(thrown)
           ELSE IF ~(req.geometryClone # NoRef /\ HasJoints(outcome))
           THEN fail("Missing geometry or joint data for skeleton creation.")
           ELSE IF Len(bound.bones) = 0
           THEN fail("Failed to create skeleton or bind attributes.")
           ELSE /\ geoms' = SkinnedClones(req.geometryClone, bound)
                /\ liveGeometry' = SkinnedLive(req.geometryClone, bound)
                /\ skeletons' = Append(skeletons, bound.bones)
                /\ generatedSkeleton' = skeletonId
                /\ skinnedGeometry' = req.geometryClone
                /\ showPrompt' = FALSE
                /\ lastDone' = [skeleton |-> skeletonId, geometry |-> req.geometryClone]
                /\ UNCHANGED error
        /\ isLoading' = FALSE
        /\ lastOp' = [op |-> "settle", kind |-> outcome.kind]
        /\ UNCHANGED <<isPreparing, prompt, preparedData, sent>>
        /\ UNCHANGED <<lassoVars, setterVars, samplerVars, rigVars, auxVars>>

(***************************************************************************)
(* AnimationPromptUI: the textarea and the Cancel button are disabled      *)
(* while isLoading, the Generate button while isLoading or the prompt is   *)
(* blank.  A disabled control dispatches no handler.                       *)
(***************************************************************************)
GenerateDisabled_IgnoresLoading == Len(Trim(prompt)) = 0

\* disabled={!prompt.trim() || isLoading}
GenerateDisabled == Len(Trim(prompt)) = 0 \/ isLoading

ClickGenerate ==
    IF GenerateDisabled
    THEN /\ lastOp' = [op |-> "clickGenerate", kind |-> "disabled"]
         /\ UNCHANGED <<isPreparing, showPrompt, prompt, isLoading, error,
                        generatedSkeleton, skinnedGeometry, preparedData, geoms, liveGeometry,
                        skeletons, inFlight, sent, lastDone>>
         /\ UNCHANGED <<lassoVars, setterVars, samplerVars, rigVars, auxVars>>
    ELSE Generate

TypePrompt(text) == ~isLoading /\ SetPrompt(text)

ClickCancel == ~isLoading /\ Cancel

(***************************************************************************)
(* AttributeSetter (components/AttributeSetter.js)                         *)
(***************************************************************************)
\* feedback: '' or the text set at line 103, kept as its parts.
NoFeedback == [kind |-> "", name |-> <<>>, size |-> 0]

\* mesh.geometry.attributes.position.count of the target mesh, which, when
\* targetMeshRef.current is set (meshValid), has a BufferGeometry with a
\* position attribute.
PositionCount == Len(LinePositions)

\* Texts typed into the name input.  None is made of digits only (an object
\* orders such keys before the others).
NameInputs ==
    { <<>>,
      << " ", " " >>,
      << "#", "#", "#" >>,
      << "L", "e", "f", "t", " ", "A", "r", "m", "!" >>,
      << " ", "L", "e", "f", "t", "\t", " ", "A", "r", "m", " " >>,
      << "!", " ", "?" >> }

\* selectedIndices in the iteration order of the Set.
SelectedInputs == { <<>>, <<0>>, <<1, 7, 0>>, <<7>> }

WordChars ==
    { "a", "b", "c", "d", "e", "f", "g", "h", "i", "j", "k", "l", "m",
      "n", "o", "p", "q", "r", "s", "t", "u", "v", "w", "x", "y", "z",
      "A", "B", "C", "D", "E", "F", "G", "H", "I", "J", "K", "L", "M",
      "N", "O", "P", "Q", "R", "S", "T", "U", "V", "W", "X", "Y", "Z",
      "0", "1", "2", "3", "4", "5", "6", "7", "8", "9", "_" }

\* name.replace(/\s+/g, '_'): each maximal run of white space becomes one "_".
RECURSIVE ReplaceWhitespaceRuns(_, _, _)
ReplaceWhitespaceRuns(s, i, out) ==
    IF i > Len(s) THEN out
    ELSE IF s[i] \in Whitespace
         THEN ReplaceWhitespaceRuns(s, i + 1,
                 IF i > 1 /\ s[i - 1] \in Whitespace THEN out ELSE Append(out, "_"))
         ELSE ReplaceWhitespaceRuns(s, i + 1, Append(out, s[i]))

\* .replace(/[^a-zA-Z0-9_]/g, '')
IsWordChar(c) == c \in WordChars
StripNonWord(s) == SelectSeq(s, IsWordChar)

SanitizedName_KeepsAll(name) == ReplaceWhitespaceRuns(name, 1, <<>>)

\* line 41
SanitizedName(name) == StripNonWord(ReplaceWhitespaceRuns(name, 1, <<>>))

\* The position of key in groups (0: no such key).
GroupIndex(groups, key) ==
    IF \E g \in 1..Len(groups) : groups[g].name = key
    THEN CHOOSE g \in 1..Len(groups) : groups[g].name = key
    ELSE 0

\* mesh.userData.vertexGroups[key] (<<>> when there is no such key)
Members(groups, key) ==
    IF GroupIndex(groups, key) = 0 THEN <<>> ELSE groups[GroupIndex(groups, key)].indices

Includes(array, x) == \E k \in 1..Len(array) : array[k] = x

AddIndices_NoRangeCheck(members, selected, k, count) ==
    members \o SelectSeq(selected, LAMBDA x : ~Includes(members, x))

AddIndices_NoIncludesCheck(members, selected, k, count) ==
    members \o SelectSeq(selected, LAMBDA x : x < count)

\* selectedIndices.forEach, lines 60-70
RECURSIVE AddIndices(_, _, _, _)
AddIndices(members, selected, k, count) ==
    IF k > Len(selected) THEN members
    ELSE AddIndices(IF selected[k] < count /\ ~Includes(members, selected[k])
                    THEN Append(members, selected[k])
                    ELSE members,
                    selected, k + 1, count)

UpdateVertexGroups_ReplacesMembers(groups, key, selected, count) ==
    LET created == IF GroupIndex(groups, key) = 0
                   THEN Append(groups, [name |-> key, indices |-> <<>>])
                   ELSE groups
    IN  [created EXCEPT ![GroupIndex(created, key)].indices =
                            AddIndices(<<>>, selected, 1, count)]

UpdateVertexGroups_OneGroupPerIndex(groups, key, selected, count) ==
    LET others == [g \in 1..Len(groups) |->
                     [groups[g] EXCEPT !.indices =
                        SelectSeq(@, LAMBDA x : groups[g].name = key
                                                   \/ ~Includes(selected, x))]]
        created == IF GroupIndex(others, key) = 0
                   THEN Append(others, [name |-> key, indices |-> <<>>])
                   ELSE others
    IN  [created EXCEPT ![GroupIndex(created, key)].indices =
                            AddIndices(@, selected, 1, count)]

\* lines 52-70: the group's array is created when missing, then extended.
UpdateVertexGroups(groups, key, selected, count) ==
    LET created == IF GroupIndex(groups, key) = 0
                   THEN Append(groups, [name |-> key, indices |-> <<>>])
                   ELSE groups
    IN  [created EXCEPT ![GroupIndex(created, key)].indices =
                            AddIndices(@, selected, 1, count)]

\* lines 76-98: the attribute custom_<key> is created filled with 0 when
\* missing, then set to 1 at each selected index below vertexCount.
SetGeometryAttribute(attrs, key, selected, vertexCount) ==
    LET created == IF GroupIndex(attrs, key) = 0
                   THEN Append(attrs, [name |-> key,
                                       values |-> [i \in 1..vertexCount |-> 0]])
                   ELSE attrs
    IN  [created EXCEPT ![GroupIndex(created, key)].values =
            [i \in 1..vertexCount |->
                IF Includes(selected, i - 1) THEN 1 ELSE @[i]]]

\* onChange of the name input (disabled while isProcessing)
SetAttributeName(text) ==
    /\ ~isProcessing
    /\ attributeName' = text
    /\ UNCHANGED <<isProcessing, feedback, feedbackTimers, vertexGroups, attributes,
                   lastSet>>
    /\ UNCHANGED <<lassoVars, genVars, samplerVars, rigVars, auxVars>>

SetOutcome_NoSanitizedCheck(selected) ==
    CASE isProcessing -> "busy"
      [] ~meshValid -> "Error: Target mesh not found."
      [] Len(selected) = 0 -> "No vertices selected."
      [] Len(Trim(attributeName)) = 0 -> "Please enter a name for the attribute."
      [] OTHER -> "set"

\* What handleSetAttribute does with the mesh, the selection and the name:
\* the early return it takes, or "set".
SetOutcome(selected) ==
    CASE isProcessing -> "busy"
      [] ~meshValid -> "Error: Target mesh not found."
      [] Len(selected) = 0 -> "No vertices selected."
      [] Len(Trim(attributeName)) = 0 -> "Please enter a name for the attribute."
      [] Len(SanitizedName(Trim(attributeName))) = 0 ->
            "Invalid attribute name. Please use alphanumeric characters and underscores."
      [] OTHER -> "set"

\* handleSetAttribute (it awaits nothing, so it runs in one step; the
\* setIsProcessing(true) of line 48 is overwritten by that of line 117
\* before any render).  onAttributeSetSuccess touches no state kept here.
HandleSetAttribute(selected) ==
    LET outcome == SetOutcome(selected)
        sanitizedName == SanitizedName(Trim(attributeName))
    IN  /\ outcome = "set" => feedbackTimers < MaxTimers
        /\ lastSet' = [outcome |-> outcome,
                       key |-> IF outcome = "set" THEN sanitizedName ELSE <<>>,
                       selected |-> selected,
                       existed |-> outcome = "set"
                                     /\ GroupIndex(vertexGroups, sanitizedName) # 0,
                       prior |-> IF outcome = "set"
                                 THEN Members(vertexGroups, sanitizedName)
                                 ELSE <<>>]
        /\ IF outcome = "set"
           THEN /\ vertexGroups' = UpdateVertexGroups(vertexGroups, sanitizedName,
                                                      selected, PositionCount)
                /\ attributes' = SetGeometryAttribute(attributes, sanitizedName,
                                                      selected, PositionCount)
                /\ feedback' = [kind |-> "set", name |-> sanitizedName,
                                size |-> Len(selected)]
                /\ attributeName' = <<>>
                /\ feedbackTimers' = feedbackTimers + 1
                /\ isProcessing' = FALSE
           ELSE UNCHANGED <<attributeName, isProcessing, feedback, feedbackTimers,
                            vertexGroups, attributes>>
        /\ UNCHANGED <<lassoVars, genVars, samplerVars, rigVars, auxVars>>

\* setTimeout(() => setFeedback(''), 3000)
FeedbackTimeout ==
    /\ feedbackTimers > 0
    /\ feedbackTimers' = feedbackTimers - 1
    /\ feedback' = NoFeedback
    /\ UNCHANGED <<attributeName, isProcessing, vertexGroups, attributes, lastSet>>
    /\ UNCHANGED <<lassoVars, genVars, samplerVars, rigVars, auxVars>>

SetterNext ==
    \/ \E text \in NameInputs : SetAttributeName(text)
    \/ \E selected \in SelectedInputs : HandleSetAttribute(selected)
    \/ FeedbackTimeout

(***************************************************************************)
(* samplePrecomputedPositions (utils/meshUtils.js), one loop iteration per *)
(* step.  Math.random is the choice of randomIndex.                        *)
(***************************************************************************)
RatioDen == 2               \* samplingRatio is given in units of 1/RatioDen
DefaultMaxCount == 1000     \* line 126
AttemptsFactor == 5         \* maxAttempts = targetSize * 5

\* The arrays passed: n records with a position, for each n, and one array
\* whose second record has no position.
VertexDataArrays ==
    { [i \in 1..n |-> [index |-> i - 1, hasPosition |-> TRUE]] : n \in 0..MaxRecords }
    \cup { << [index |-> 0, hasPosition |-> TRUE], [index |-> 1, hasPosition |-> FALSE] >> }

NoArgs == [isArray |-> FALSE, vertexDataArray |-> <<>>, samplingRatio |-> 0, maxCount |-> 0]

\* The arguments of a call: samplingRatio from -1/2 to 3/2, maxCount from 0.
SamplerInputs ==
    [isArray : {TRUE}, vertexDataArray : VertexDataArrays,
     samplingRatio : (-1)..(RatioDen + 1), maxCount : 0..2]
    \cup { NoArgs }

Max(a, b) == IF a > b THEN a ELSE b

\* lines 120-123: samplingRatio clamped to [0, 1]
ClampedRatio(ratio) == Max(0, Min(RatioDen, ratio))

\* lines 124-127
EffectiveMaxCount(maxCount) == IF maxCount <= 0 THEN DefaultMaxCount ELSE maxCount

SamplerTargetSize_IgnoresMaxCount(args) ==
    LET totalAvailable == Len(args.vertexDataArray)
    IN  Max(0, Min(Ceil(totalAvailable * ClampedRatio(args.samplingRatio), RatioDen),
                   totalAvailable))

\* lines 130-135
SamplerTargetSize(args) ==
    LET totalAvailable == Len(args.vertexDataArray)
    IN  Max(0, Min(Min(Ceil(totalAvailable * ClampedRatio(args.samplingRatio), RatioDen),
                       totalAvailable),
                   EffectiveMaxCount(args.maxCount)))

\* Entry of the function, up to the first test of the while loop; the two
\* early returns give [].
SampleCall(args) ==
    /\ samplerPc \in {"idle", "returned"}
    /\ samplerArgs' = args
    /\ attempts' = 0
    /\ sampledInputIndices' = {}
    /\ sampledPositions' = <<>>
    /\ IF ~args.isArray \/ Len(args.vertexDataArray) = 0
       THEN targetSize' = 0 /\ samplerPc' = "returned"
       ELSE /\ targetSize' = SamplerTargetSize(args)
            /\ samplerPc' = IF SamplerTargetSize(args) = 0 THEN "returned" ELSE "loop"
    /\ UNCHANGED <<lassoVars, genVars, setterVars, rigVars, auxVars>>

LoopTest_NoAttemptLimit == Cardinality(sampledInputIndices) < targetSize

\* sampledInputIndices.size < targetSize && attempts < maxAttempts
LoopTest ==
    /\ Cardinality(sampledInputIndices) < targetSize
    /\ attempts < targetSize * AttemptsFactor

LoopBody_NoHasCheck(randomIndex) ==
    /\ attempts' = attempts + 1
    /\ sampledInputIndices' = sampledInputIndices \cup {randomIndex}
    /\ sampledPositions' =
          IF samplerArgs.vertexDataArray[randomIndex + 1].hasPosition
          THEN Append(sampledPositions, randomIndex)
          ELSE sampledPositions

\* lines 149-165
LoopBody(randomIndex) ==
    /\ attempts' = attempts + 1
    /\ IF randomIndex \notin sampledInputIndices
       THEN /\ sampledInputIndices' = sampledInputIndices \cup {randomIndex}
            /\ sampledPositions' =
                  IF samplerArgs.vertexDataArray[randomIndex + 1].hasPosition
                  THEN Append(sampledPositions, randomIndex)
                  ELSE sampledPositions
       ELSE UNCHANGED <<sampledInputIndices, sampledPositions>>

\* One iteration of the while loop, with
\* randomIndex = Math.floor(Math.random() * totalAvailable).
Draw(randomIndex) ==
    /\ samplerPc = "loop"
    /\ LoopTest
    /\ LoopBody(randomIndex)
    /\ UNCHANGED <<samplerPc, samplerArgs, targetSize>>
    /\ UNCHANGED <<lassoVars, genVars, setterVars, rigVars, auxVars>>

\* The loop ends and the function returns sampledPositions.
SampleReturn ==
    /\ samplerPc = "loop"
    /\ ~LoopTest
    /\ samplerPc' = "returned"
    /\ UNCHANGED <<samplerArgs, targetSize, attempts, sampledInputIndices,
                   sampledPositions>>
    /\ UNCHANGED <<lassoVars, genVars, setterVars, rigVars, auxVars>>

RandomIndices == 0..(Len(samplerArgs.vertexDataArray) - 1)

SamplerRun == (\E randomIndex \in RandomIndices : Draw(randomIndex)) \/ SampleReturn

SamplerNext ==
    \/ \E args \in SamplerInputs : SampleCall(args)
    \/ \E randomIndex \in RandomIndices : Draw(randomIndex)
    \/ SampleReturn

(***************************************************************************)
(* createAndBindSkeleton called directly, on geometries and joint lists    *)
(* of the kinds the orchestrator can pass                                  *)
(***************************************************************************)
\* Position buffers: six vertices on the line from (0,0,0) to (5,0,0), four
\* vertices off the line, and two vertices.
RigMeshes ==
    { [name |-> "line", hasPosition |-> TRUE, groups |-> <<>>,
       positions |-> << Vec(0, 0, 0), Vec(1, 0, 0), Vec(2, 0, 0), Vec(3, 0, 0),
                        Vec(4, 0, 0), Vec(5, 0, 0) >>],
      [name |-> "solid", hasPosition |-> TRUE, groups |-> <<>>,
       positions |-> << Vec(1, 1, 0), Vec(0, 1, 2), Vec(-1, 0, 1), Vec(1, 0, 0) >>],
      [name |-> "pair", hasPosition |-> TRUE, groups |-> <<>>,
       positions |-> << Vec(1, 0, 0), Vec(4, 0, 0) >>] }

\* Joint lists as response.json() yields them: the body is passed on as it
\* was parsed (generate-joints.js line 104, useSkeletonGenerator.js line
\* 146), so a joint may lack a numeric coordinate.
RigJointLists ==
    { <<>>,
      << Vec(1, 0, 0) >>,
      << Vec(0, 0, 0), Vec(5, 0, 0) >>,
      << Vec(0, 0, 0), Vec(2, 0, 0) >>,
      << Vec(2, 0, 0), Vec(0, 0, 0) >>,
      << Vec(0, 0, 0), Vec(1, 2, 3), Vec(-1, 0, 1) >>,
      << Vec(0, 0, 0), Vec(2, 0, 0), Vec(1, 1, 0), Vec(1, -1, 0) >>,
      << Vec(NaN, 0, 0) >>,
      << Vec(0, 0, 0), Vec(0, NaN, 0) >> }

NoCall == [called |-> FALSE, joints |-> <<>>, before |-> Geometry(CHOOSE m \in RigMeshes : m.name = "line")]

\* A caller takes a geometry that has not been skinned.
RigLoad(mesh) ==
    /\ rigGeometry' = Geometry(mesh)
    /\ rigSkeleton' = <<>>
    /\ rigCall' = [NoCall EXCEPT !.before = Geometry(mesh)]
    /\ UNCHANGED <<lassoVars, genVars, setterVars, samplerVars, auxVars>>

\* createAndBindSkeleton(geometry, jointPositions); skeleton 1 is the one
\* this call returns.
RigBind(jointPositions) ==
    LET bound == CreateAndBindSkeleton(rigGeometry, jointPositions, 1)
    IN  /\ rigGeometry' = bound.geometry
        /\ rigSkeleton' = bound.bones
        /\ rigCall' = [called |-> TRUE, joints |-> jointPositions, before |-> rigGeometry]
        /\ UNCHANGED <<lassoVars, genVars, setterVars, samplerVars, auxVars>>

RigNext ==
    \/ \E mesh \in RigMeshes : RigLoad(mesh)
    \/ \E jointPositions \in RigJointLists : RigBind(jointPositions)

(***************************************************************************)
(* _isPointInLasso called directly, on paths and points of a 9 x 9 grid    *)
(***************************************************************************)
Pt(x, y) == [x |-> x, y |-> y]
\* A square, drawn in either direction and from either of two corners; an
\* L-shaped and an arrow-shaped concave polygon; paths of 0, 1 and 2 points.
SquarePaths ==
    { << Pt(1, 1), Pt(5, 1), Pt(5, 5), Pt(1, 5) >>,
      << Pt(1, 5), Pt(5, 5), Pt(5, 1), Pt(1, 1) >>,
      << Pt(5, 5), Pt(1, 5), Pt(1, 1), Pt(5, 1) >> }
LPath == << Pt(0, 0), Pt(6, 0), Pt(6, 2), Pt(2, 2), Pt(2, 6), Pt(0, 6) >>
ArrowPath == << Pt(0, 0), Pt(3, 2), Pt(6, 0), Pt(3, 6) >>
ShortPaths ==
    { <<>>, << Pt(3, 3) >>, << Pt(0, 0), Pt(6, 6) >>, << Pt(0, 3), Pt(6, 3) >>,
      << Pt(5, 0), Pt(2, 6) >> }
TestPaths == SquarePaths \cup {LPath, ArrowPath} \cup ShortPaths
TestPoints == { Pt(x, y) : x \in -1..7, y \in -1..7 }
NoResult == [called |-> FALSE, inside |-> FALSE, divisors |-> {}]

\* A gesture leaves a path in this._lassoPoints.
SetPath(points) ==
    /\ testPath' = points
    /\ testResult' = NoResult
    /\ UNCHANGED testPoint
    /\ UNCHANGED <<lassoVars, genVars, setterVars, samplerVars, rigVars, pickVars, editorVars, handlerVars>>

\* _isPointInLasso(point)
TestPoint(point) ==
    /\ testPoint' = point
    /\ testResult' = [called |-> TRUE,
                      inside |-> IsPointInLasso(point, testPath),
                      divisors |-> IF Len(testPath) = 0 THEN {}
                                   ELSE Divisors(point, testPath, 1, Len(testPath))]
    /\ UNCHANGED testPath
    /\ UNCHANGED <<lassoVars, genVars, setterVars, samplerVars, rigVars, pickVars, editorVars, handlerVars>>

ContainNext ==
    \/ \E points \in TestPaths : SetPath(points)
    \/ \E point \in TestPoints : TestPoint(point)

(***************************************************************************)
(* sampleVertexPositions called on sets of selected indices, some of them  *)
(* out of range for the geometry                                           *)
(***************************************************************************)
\* Array.from(selectedIndices): no index twice; 5 and -1 are out of range
\* for every geometry below.
SelectedArrays ==
    { <<>>, << 0 >>, << 5 >>, << 0, 1 >>, << 0, 5 >>, << 5, 0 >>, << -1, 5 >>,
      << 0, 1, 2 >>, << 0, 1, 5 >>, << 2, 0, 1, 5 >>, << 5, 0, 1, -1 >> }
VertexCounts == {2, 3}
PickRatios == (-1)..(RatioDen + 1)
\* Math.floor(Math.random() * totalSelected), counted from 1
PickIndices == 1..4

\* line 36
SampleSize(totalSelected, samplingRatio) ==
    Max(1, Min(totalSelected, Ceil(totalSelected * ClampedRatio(samplingRatio), RatioDen)))

\* line 51
ValidIndex(vertexIndex, count) == vertexIndex >= 0 /\ vertexIndex < count

\* Entry of the function, up to the first test of the while loop; an empty
\* set returns [] at once. sampleSize is at least 1, so the loop is entered.
SampleVertexCall(selected, samplingRatio, count) ==
    /\ vertexPc # "loop"
    /\ indicesArray' = selected
    /\ positionCount' = count
    /\ sampledIndices' = {}
    /\ passes' = 0
    /\ IF Len(selected) = 0
       THEN /\ sampleSize' = 0
            /\ vertexPc' = "returned"
       ELSE /\ sampleSize' = SampleSize(Len(selected), samplingRatio)
            /\ vertexPc' = "loop"
    /\ UNCHANGED <<lassoVars, genVars, setterVars, samplerVars, rigVars, containVars, editorVars, handlerVars>>

\* One pass of the while loop with the draw randomIndex, up to the next test
\* of its condition, and from there to the return when the loop ends.
PickStep(randomIndex) ==
    /\ vertexPc = "loop"
    /\ randomIndex \in 1..Len(indicesArray)
    /\ LET vertexIndex == indicesArray[randomIndex]
           added == IF ValidIndex(vertexIndex, positionCount)
                    THEN sampledIndices \cup {vertexIndex}
                    ELSE sampledIndices
       IN  /\ sampledIndices' = added
           /\ passes' = (passes + 1) % 2
           /\ vertexPc' = IF \/ Cardinality(added) >= Len(indicesArray)
                            \/ ~(Cardinality(added) < sampleSize)
                         THEN "returned"
                         ELSE "loop"
    /\ UNCHANGED <<indicesArray, positionCount, sampleSize>>
    /\ UNCHANGED <<lassoVars, genVars, setterVars, samplerVars, rigVars, containVars, editorVars, handlerVars>>

PickNext ==
    \/ \E selected \in SelectedArrays : \E samplingRatio \in PickRatios :
          \E count \in VertexCounts : SampleVertexCall(selected, samplingRatio, count)
    \/ \E randomIndex \in PickIndices : PickStep(randomIndex)

(***************************************************************************)
(* The editor page (pages/editor.js): vertex groups made with the          *)
(* AttributeSetter, then "Continue to Animation"                           *)
(***************************************************************************)
\* Texts typed into the name input on the editor page.
EditorNames == { << "a", "r", "m" >>, << "1" >> }

DecimalDigits == << "0", "1", "2", "3", "4", "5", "6", "7", "8", "9" >>
IsDigit(c) == \E d \in 1..10 : DecimalDigits[d] = c
DigitValue(c) == (CHOOSE d \in 1..10 : DecimalDigits[d] = c) - 1

\* The value of the longest prefix of digits of s from position i on.
RECURSIVE ParseDigits(_, _, _)
ParseDigits(s, i, acc) ==
    IF i <= Len(s) /\ IsDigit(s[i])
    THEN ParseDigits(s, i + 1, acc * 10 + DigitValue(s[i]))
    ELSE acc

\* parseInt(string, 10): leading white space skipped, an optional sign,
\* then the digits up to the first other character; NaN without a digit.
ParseInt(string) ==
    LET t == TrimStart(string)
        signed == Len(t) > 0 /\ t[1] \in {"+", "-"}
        first == IF signed THEN 2 ELSE 1
    IN  IF first <= Len(t) /\ IsDigit(t[first])
        THEN IF signed /\ t[1] = "-"
             THEN 0 - ParseDigits(t, first, 0)
             ELSE ParseDigits(t, first, 0)
        ELSE NaN

\* A key that is a canonical array index: for...in visits such keys first,
\* in ascending order, then the other keys in the order of their creation.
IsIndexKey(name) ==
    /\ Len(name) > 0
    /\ \A k \in 1..Len(name) : IsDigit(name[k])
    /\ Len(name) = 1 \/ name[1] # "0"

RECURSIVE AscendingKeys(_)
AscendingKeys(names) ==
    IF names = {} THEN <<>>
    ELSE LET least == CHOOSE n \in names :
                         \A m \in names : ParseDigits(n, 1, 0) <= ParseDigits(m, 1, 0)
         IN  <<least>> \o AscendingKeys(names \ {least})

ForInKeys(groups) ==
    LET names == [g \in 1..Len(groups) |-> groups[g].name]
    IN  AscendingKeys({ names[g] : g \in { h \in 1..Len(groups) : IsIndexKey(names[h]) } })
        \o SelectSeq(names, LAMBDA n : ~IsIndexKey(n))

\* lines 174-190: the loop over the keys of currentVertexGroups.  The world
\* matrix of the mesh is the identity.
RECURSIVE CollectVertexData(_, _, _, _, _)
CollectVertexData(keys, k, positions, processedIndices, vertexDataForContext) ==
    IF k > Len(keys) THEN vertexDataForContext
    ELSE LET vertexIndex == ParseInt(keys[k])
         IN  IF /\ vertexIndex # NaN
                /\ vertexIndex >= 0
                /\ vertexIndex < Len(positions)
                /\ vertexIndex \notin processedIndices
             THEN CollectVertexData(keys, k + 1, positions,
                      processedIndices \cup {vertexIndex},
                      Append(vertexDataForContext,
                             [index |-> vertexIndex,
                              position |-> positions[vertexIndex + 1]]))
             ELSE CollectVertexData(keys, k + 1, positions, processedIndices,
                                    vertexDataForContext)

NoVertexData == [isNull |-> TRUE, records |-> <<>>]

\* handleContinueToAnimation
HandleContinueToAnimation ==
    /\ route = "/editor"
    /\ IF ~meshValid
       THEN /\ alertText' = "Error: Model mesh data is not available."
            /\ UNCHANGED <<route, contextVertexData, modelGeometry>>
       ELSE IF Len(vertexGroups) = 0
       THEN /\ alertText' =
                 "Error: Please define at least one vertex group using the Attribute Setter."
            /\ UNCHANGED <<route, contextVertexData, modelGeometry>>
       ELSE /\ contextVertexData' =
                 [isNull |-> FALSE,
                  records |-> CollectVertexData(ForInKeys(vertexGroups), 1, LinePositions,
                                                {}, <<>>)]
            /\ modelGeometry' = TRUE
            /\ route' = "/animation"
            /\ UNCHANGED alertText
    /\ UNCHANGED <<lassoVars, genVars, setterVars, samplerVars, rigVars, containVars, pickVars, handlerVars>>

\* The AttributeSetter is part of the editor page.
EditorNext ==
    \/ \E text \in EditorNames : route = "/editor" /\ SetAttributeName(text)
    \/ \E selected \in SelectedInputs : route = "/editor" /\ HandleSetAttribute(selected)
    \/ route = "/editor" /\ FeedbackTimeout
    \/ HandleContinueToAnimation

(***************************************************************************)
(* The joint-suggestion handler (pages/api/generate-joints.js), one        *)
(* request at a time                                                       *)
(***************************************************************************)
\* req.body.sampledVertices: not an array, or its elements; an element may
\* lack a numeric coordinate (NaN).
SampledVerticesInputs ==
    { [isArray |-> FALSE, items |-> <<>>],
      [isArray |-> TRUE, items |-> <<>>],
      [isArray |-> TRUE, items |-> << Vec(0, 0, 0) >>],
      [isArray |-> TRUE, items |-> << Vec(0, 0, 0), Vec(1, 0, 0) >>],
      [isArray |-> TRUE, items |-> << Vec(2, 1, 0), Vec(1, 0, 0), Vec(0, 0, 0) >>],
      [isArray |-> TRUE, items |-> << Vec(0, NaN, 0) >>],
      [isArray |-> TRUE, items |-> << Vec(0, 0, 0), Vec(NaN, 0, 0) >>] }

\* req.body.animationPrompt: not a string, or its characters.
AnimationPromptInputs ==
    { [isString |-> FALSE, text |-> <<>>] }
    \cup { [isString |-> TRUE, text |-> t] : t \in PromptTexts }

HandlerRequests ==
    [method : {"GET", "POST"}, hasApiKey : BOOLEAN,
     sampledVertices : SampledVerticesInputs, animationPrompt : AnimationPromptInputs]

NoRequest ==
    [method |-> "none", hasApiKey |-> FALSE,
     sampledVertices |-> [isArray |-> FALSE, items |-> <<>>],
     animationPrompt |-> [isString |-> FALSE, text |-> <<>>]]

\* What the Anthropic API does with the request: fetch rejects; a status
\* outside 200-299; a body that is not JSON; a body without a text block;
\* a text block holding no JSON, JSON that is no array, or an array.
UpstreamOutcomes ==
    { [kind |-> "reject", status |-> 0, joints |-> <<>>],
      [kind |-> "status", status |-> 429, joints |-> <<>>],
      [kind |-> "status", status |-> 529, joints |-> <<>>],
      [kind |-> "notJson", status |-> 200, joints |-> <<>>],
      [kind |-> "noText", status |-> 200, joints |-> <<>>],
      [kind |-> "textNotJson", status |-> 200, joints |-> <<>>],
      [kind |-> "textNotArray", status |-> 200, joints |-> <<>>] }
    \cup { [kind |-> "array", status |-> 200, joints |-> j] : j \in JointLists }

Response(status, body, joints) == [status |-> status, body |-> body, joints |-> joints]

\* lines 11-29: the response of an early return, or "pass"
EarlyResponse(req) ==
    CASE req.method # "POST" -> Response(405, "Method Not Allowed", <<>>)
      [] ~req.hasApiKey -> Response(500, "API configuration error on server.", <<>>)
      [] ~req.sampledVertices.isArray \/ Len(req.sampledVertices.items) = 0 ->
            Response(400, "sampledVertices must be a non-empty array.", <<>>)
      [] ~req.animationPrompt.isString \/ Len(Trim(req.animationPrompt.text)) = 0 ->
            Response(400, "animationPrompt must be a non-empty string.", <<>>)
      [] OTHER -> Response(0, "pass", <<>>)

\* line 32: v.x.toFixed(3) throws a TypeError when a coordinate of an
\* element is not a number.
FormatThrows(items) ==
    \E k \in 1..Len(items) : ~IsNumeric(items[k])

\* lines 85-122: the response to each outcome of the upstream call
UpstreamResponse(outcome) ==
    CASE outcome.kind = "status" ->
            Response(outcome.status, "Anthropic API request failed", <<>>)
      [] outcome.kind = "array" -> Response(200, "joints", outcome.joints)
      [] outcome.kind \in {"textNotJson", "textNotArray"} ->
            Response(500, "Failed to parse response from AI service.", <<>>)
      [] outcome.kind = "noText" ->
            Response(500, "Unexpected response structure from AI service.", <<>>)
      [] OTHER -> Response(500, "Failed to communicate with AI service.", <<>>)

\* handler(req, res) from its entry to the await of fetch, or to the return
\* or the uncaught exception that ends it before.
HandlerReceive(req) ==
    /\ handlerPc # "awaiting"
    /\ handlerReq' = req
    /\ IF EarlyResponse(req).body # "pass"
       THEN /\ responses' = << EarlyResponse(req) >>
            /\ upstreamCalls' = 0
            /\ handlerPc' = "returned"
       ELSE IF FormatThrows(req.sampledVertices.items)
       THEN /\ responses' = <<>>
            /\ upstreamCalls' = 0
            /\ handlerPc' = "threw"
       ELSE /\ responses' = <<>>
            /\ upstreamCalls' = 1
            /\ handlerPc' = "awaiting"
    /\ UNCHANGED <<lassoVars, genVars, setterVars, samplerVars, rigVars, containVars, pickVars, editorVars>>

\* The rest of the handler, once fetch has resolved or rejected.
HandlerSettle(outcome) ==
    /\ handlerPc = "awaiting"
    /\ responses' = Append(responses, UpstreamResponse(outcome))
    /\ handlerPc' = "returned"
    /\ UNCHANGED <<handlerReq, upstreamCalls>>
    /\ UNCHANGED <<lassoVars, genVars, setterVars, samplerVars, rigVars, containVars, pickVars, editorVars>>

HandlerNext ==
    \/ \E req \in HandlerRequests : HandlerReceive(req)
    \/ \E outcome \in UpstreamOutcomes : HandlerSettle(outcome)

(***************************************************************************)
(* Specifications                                                          *)
(***************************************************************************)
\* The state after construction: a ModelEditorLasso with its mousedown
\* listener attached, and the hook's initial useState values.
InitWith(meshes) ==
    /\ isSelecting = FALSE
    /\ lassoPoints = <<>>
    /\ selectedVertices = {}
    /\ listeners = {"mousedown"}
    /\ meshValid \in meshes
    /\ notes = <<>>
    /\ tested = {}
    /\ lastEvent = [type |-> "none", button |-> 0, x |-> 0, y |-> 0, wasSelecting |-> FALSE]
    /\ gesture = <<>>
    /\ finals = << {}, {} >>
    /\ isPreparing = FALSE
    /\ showPrompt = FALSE
    /\ prompt = <<>>
    /\ isLoading = FALSE
    /\ error = Null
    /\ generatedSkeleton = NoRef
    /\ skinnedGeometry = NoRef
    /\ preparedData = [groupedVertexData |-> <<>>, geometryClone |-> NoRef]
    /\ geoms = <<>>
    /\ liveGeometry = LiveGeometries
    /\ skeletons = <<>>
    /\ inFlight = {}
    /\ sent = 0
    /\ lastOp = [op |-> "none", kind |-> "none"]
    /\ lastDone = [skeleton |-> NoRef, geometry |-> NoRef]
    /\ attributeName = <<>>
    /\ isProcessing = FALSE
    /\ feedback = NoFeedback
    /\ feedbackTimers = 0
    /\ vertexGroups = <<>>
    /\ attributes = <<>>
    /\ lastSet = [outcome |-> "none", key |-> <<>>, selected |-> <<>>,
                  existed |-> FALSE, prior |-> <<>>]
    /\ samplerPc = "idle"
    /\ samplerArgs = NoArgs
    /\ targetSize = 0
    /\ attempts = 0
    /\ sampledInputIndices = {}
    /\ sampledPositions = <<>>
    /\ rigGeometry = NoCall.before
    /\ rigSkeleton = <<>>
    /\ rigCall = NoCall
    /\ testPath = <<>>
    /\ testPoint = Pt(0, 0)
    /\ testResult = NoResult
    /\ vertexPc = "idle"
    /\ indicesArray = <<>>
    /\ positionCount = 0
    /\ sampleSize = 0
    /\ sampledIndices = {}
    /\ passes = 0
    /\ route = "/editor"
    /\ contextVertexData = NoVertexData
    /\ modelGeometry = FALSE
    /\ alertText = ""
    /\ handlerPc = "idle"
    /\ handlerReq = NoRequest
    /\ responses = <<>>
    /\ upstreamCalls = 0

LassoInit == InitWith(BOOLEAN)
Init == InitWith({TRUE})

LassoSpec == LassoInit /\ [][LassoNext]_vars

\* The engine as LassoController creates and disposes of it.
ControllerSpec == Init /\ [][ControllerNext]_vars

\* AttributeSetter over a mesh that is present or not.
SetterSpec == LassoInit /\ [][SetterNext]_vars

\* samplePrecomputedPositions called again and again.
SamplerSpec == Init /\ [][SamplerNext]_vars

\* The same, where a call that has started runs on: the loop is sequential
\* code that nothing suspends.
SamplerFairSpec == SamplerSpec /\ WF_vars(SamplerRun)

\* The skeleton synthesizer called again and again.
RigSpec == Init /\ [][RigNext]_vars

\* The containment test called again and again.
ContainSpec == Init /\ [][ContainNext]_vars

\* sampleVertexPositions called again and again.
PickSpec == Init /\ [][PickNext]_vars

\* The same, where the loop runs on and every element of indicesArray is
\* drawn again and again for as long as it runs.
PickFairSpec == PickSpec /\ \A randomIndex \in PickIndices : WF_vars(PickStep(randomIndex))

\* The editor page over a mesh that is present or not.
EditorSpec == LassoInit /\ [][EditorNext]_vars

\* The joint-suggestion handler serving request after request.
HandlerSpec == Init /\ [][HandlerNext]_vars

\* The hook driven through the functions it returns.
Next ==
    \/ \E mesh \in MeshInputs : Prepare(mesh)
    \/ \E text \in PromptTexts : SetPrompt(text)
    \/ Generate
    \/ Cancel
    \/ \E req \in inFlight : \E outcome \in Outcomes : Settle(req, outcome)

Spec == Init /\ [][Next]_vars

\* The same, where the service answers every request: fetch resolves or
\* rejects, and the continuation of generate then runs.
AnsweredSpec ==
    Spec /\ WF_vars(\E req \in inFlight : \E outcome \in Outcomes : Settle(req, outcome))

\* The hook driven through AnimationPromptUI.
UINext ==
    \/ \E mesh \in MeshInputs : Prepare(mesh)
    \/ \E text \in PromptTexts : TypePrompt(text)
    \/ ClickGenerate
    \/ ClickCancel
    \/ \E req \in inFlight : \E outcome \in Outcomes : Settle(req, outcome)

UISpec == Init /\ [][UINext]_vars

\* The hook driven through AnimationPromptUI, with a service that answers
\* every request with a success status: an array of 0, 1, 2 or 4 joints
\* (the handler forwards any array, generate-joints.js lines 99-104), or a
\* body of another shape.
CountedJointLists ==
    { <<>>,
      << Vec(1, 0, 0) >>,
      << Vec(0, 0, 0), Vec(2, 0, 0) >>,
      << Vec(0, 0, 0), Vec(1, 0, 0), Vec(2, 0, 0), Vec(2, 1, 0) >> }
ArrayOutcomes ==
    { [kind |-> "array", status |-> 200, text |-> "", joints |-> js] :
          js \in CountedJointLists }
\* Success responses whose body is not an array of numeric {x, y, z}: JSON
\* null, an object that is no array, and an array whose one element lacks
\* a numeric x (the handler forwards every array as parsed).
MalformedOutcomes ==
    { [kind |-> k, status |-> 200, text |-> "", joints |-> <<>>] :
          k \in {"jsonNull", "jsonObject"} }
    \cup { [kind |-> "array", status |-> 200, text |-> "", joints |-> << Vec(NaN, 0, 0) >>] }
ResponseNext ==
    \/ \E mesh \in MeshInputs : Prepare(mesh)
    \/ \E text \in PromptTexts : TypePrompt(text)
    \/ ClickGenerate
    \/ ClickCancel
    \/ \E req \in inFlight : \E outcome \in ArrayOutcomes \cup MalformedOutcomes :
          Settle(req, outcome)

ResponseSpec == Init /\ [][ResponseNext]_vars

(***************************************************************************)
(* Properties of the lasso selection engine (LassoSpec)                    *)
(***************************************************************************)
\* The vertices a path selects: those of the position buffer with a visible
\* depth whose screen position is inside the polygon of the path.
Classification(path) ==
    { i \in 0..(VertexCount - 1) :
        /\ DepthVisible(MeshNdc[i + 1])
        /\ IsPointInLasso([x |-> ScreenX(MeshNdc[i + 1]), y |-> ScreenY(MeshNdc[i + 1])],
                          path) }

CompletedGesture == lastEvent.type = "mouseup" /\ lastEvent.wasSelecting

\* C1: after every completed gesture (also one that follows another gesture)
\* the selection is the classification of that gesture's own path: nothing
\* selected only by an earlier gesture remains.
C1_SelectionReplaced ==
    CompletedGesture =>
        selectedVertices =
            IF meshValid /\ Len(gesture) > 2 THEN Classification(gesture) ELSE {}

\* A second gesture has completed, it selected something, and a vertex the
\* gesture before it had selected is no longer selected.
C1_Witness ==
    /\ CompletedGesture
    /\ selectedVertices = finals[2]
    /\ finals[2] # {}
    /\ finals[1] \ finals[2] # {}

\* C8: a mouseup received while dragging leaves the engine idle and makes
\* exactly one notification, which carries the final selection, whether or
\* not the path was long enough to be classified.
C8_OneNotification ==
    CompletedGesture => (~isSelecting /\ notes = << selectedVertices >>)

\* A gesture of at least three points has completed with a non-empty selection.
C8_Witness ==
    /\ CompletedGesture
    /\ Len(gesture) > 2
    /\ selectedVertices # {}
    /\ Len(notes) = 1

PrimaryDownInIdle ==
    lastEvent.type = "mousedown" /\ lastEvent.button = 0 /\ ~lastEvent.wasSelecting

\* C9 as stated: every primary mousedown in Idle notifies the observer with
\* the empty set.
C9_AlwaysNotified ==
    PrimaryDownInIdle =>
        /\ isSelecting
        /\ selectedVertices = {}
        /\ notes = << {} >>
        /\ lassoPoints = << [x |-> lastEvent.x, y |-> lastEvent.y] >>

\* C9, amended: a primary mousedown in Idle starts dragging, empties the
\* selection, resets the path to the down position, and notifies the
\* observer with the empty set exactly when the selection was not empty.
C9_DownStartsGesture ==
    [][(lastEvent'.type = "mousedown" /\ lastEvent'.button = 0 /\ ~isSelecting) =>
         /\ isSelecting'
         /\ selectedVertices' = {}
         /\ notes' = (IF selectedVertices # {} THEN << {} >> ELSE <<>>)
         /\ lassoPoints' = << [x |-> lastEvent'.x, y |-> lastEvent'.y] >>]_vars

\* A primary mousedown in Idle has just cleared the selection the last
\* gesture had made, and has notified the observer of it.
C9_Witness ==
    /\ PrimaryDownInIdle
    /\ finals[2] # {}
    /\ selectedVertices = {}
    /\ notes = << {} >>

\* C10: a gesture completed with fewer than three points ends with an empty
\* selection, classifies no vertex, and runs to its end (idle, observer
\* notified of the empty selection).
C10_ShortGesture ==
    (CompletedGesture /\ Len(gesture) < 3) =>
        /\ selectedVertices = {}
        /\ tested = {}
        /\ ~isSelecting
        /\ notes = << {} >>

\* A two-point gesture (down, up) has completed on a valid mesh after a
\* gesture that had selected something.
C10_Witness ==
    /\ CompletedGesture
    /\ Len(gesture) = 2
    /\ meshValid
    /\ finals[1] # {}
    /\ selectedVertices = {}

C12_OtherButtonIgnored ==
    [][(lastEvent'.type = "mousedown" /\ lastEvent'.button # 0) =>
         /\ UNCHANGED <<isSelecting, lassoPoints, selectedVertices, listeners>>
         /\ notes' = <<>>
         /\ tested' = {}]_vars

\* A secondary-button mousedown was received in mid-drag, after a move.
C12_Witness ==
    /\ lastEvent.type = "mousedown"
    /\ lastEvent.button = 2
    /\ lastEvent.wasSelecting
    /\ isSelecting
    /\ Len(lassoPoints) = 2
    /\ listeners = {"mousedown", "mousemove", "mouseup"}

(***************************************************************************)
(* Properties of the generation orchestrator (Spec, UISpec)                *)
(***************************************************************************)
ServiceStatusFailure == lastOp.op = "settle" /\ lastOp.kind = "status"

\* C2 as stated: after a generate that failed on a non-success status, the
\* skeleton and skinned geometry of the last successful generation are
\* still exposed.
C2_PriorResultKept ==
    (ServiceStatusFailure /\ lastDone.skeleton # NoRef) =>
        /\ generatedSkeleton = lastDone.skeleton
        /\ skinnedGeometry = lastDone.geometry

\* C2, amended: after a generate that failed on a non-success status the
\* error is the one derived from the response and no skeleton or skinned
\* geometry is exposed, those of an earlier successful generation included.
C2_FailureClearsResult ==
    ServiceStatusFailure =>
        /\ generatedSkeleton = NoRef
        /\ skinnedGeometry = NoRef
        /\ error \in {"Failed to get suggestions from AI.", "API request failed (500)"}

\* A generate has failed on a non-success status after another had succeeded.
C2_Witness ==
    /\ ServiceStatusFailure
    /\ lastDone.skeleton # NoRef
    /\ generatedSkeleton = NoRef

C4_DoneOrErrored ==
    lastOp.op = "settle" =>
        \/ generatedSkeleton # NoRef /\ skinnedGeometry # NoRef /\ error = Null
        \/ generatedSkeleton = NoRef /\ skinnedGeometry = NoRef
              /\ error \notin {Null, ""}

GenerateInputErrors ==
    { "Grouped vertex data not found or empty. Please prepare data again.",
      "Model geometry not found. Please prepare data again.",
      "Please enter an animation prompt." }

\* C5: a generate call made with a blank prompt, or without flattened data
\* or without a geometry snapshot, reports one of the input errors, sends
\* no request and produces no skeleton.
C5_InputCheck ==
    [][(/\ lastOp'.op = "generate"
        /\ \/ \A k \in 1..Len(prompt) : prompt[k] = " "
           \/ Len(preparedData.groupedVertexData) = 0
           \/ preparedData.geometryClone = NoRef) =>
         /\ error' \in GenerateInputErrors
         /\ sent' = sent
         /\ inFlight' = inFlight
         /\ skeletons' = skeletons
         /\ geoms' = geoms
         /\ generatedSkeleton' = NoRef
         /\ skinnedGeometry' = NoRef]_vars

\* generate was called with a whitespace-only prompt on prepared data.
C5_Witness ==
    /\ lastOp.op = "generate"
    /\ prompt = << " " >>
    /\ preparedData.geometryClone # NoRef
    /\ error = "Please enter an animation prompt."
    /\ sent = 0

\* A mesh with a position buffer and a group that has a member index of the
\* position buffer.
HasGroupedVertex(mesh) ==
    /\ mesh.hasPosition
    /\ \E g \in 1..Len(mesh.groups) : \E k \in 1..Len(mesh.groups[g].indices) :
          mesh.groups[g].indices[k] \in 0..(Len(mesh.positions) - 1)

PrepareErrors ==
    { "Model mesh data is not available.",
      "Please define at least one vertex group using the Attribute Setter.",
      "No vertices associated with the defined groups. Please re-assign attributes." }

\* C6: prepare on a mesh with a grouped in-range vertex stores a fresh,
\* unskinned snapshot of the geometry and the non-empty flattened data,
\* shows the prompt and leaves no error; on any other mesh it reports a
\* validation error, stores nothing and does not turn the prompt on.
C6_Prepare ==
    [][\A mesh \in MeshInputs : Prepare(mesh) =>
          IF HasGroupedVertex(mesh)
          THEN /\ preparedData'.geometryClone = Len(geoms) + 1
               /\ Len(geoms') = Len(geoms) + 1
               /\ geoms'[Len(geoms')].positions = mesh.positions
               /\ geoms'[Len(geoms')].skinIndex = <<>>
               /\ Len(preparedData'.groupedVertexData) > 0
               /\ showPrompt'
               /\ error' = Null
          ELSE /\ error' \in PrepareErrors
               /\ preparedData' = [groupedVertexData |-> <<>>, geometryClone |-> NoRef]
               /\ geoms' = geoms
               /\ showPrompt' = showPrompt]_vars

\* prepare has succeeded: the prompt is shown over stored data, with no error.
C6_Witness ==
    /\ lastOp = [op |-> "prepare", kind |-> "ok"]
    /\ showPrompt
    /\ error = Null
    /\ preparedData.geometryClone # NoRef
    /\ Len(preparedData.groupedVertexData) > 1

\* C7: cancel hides the prompt, clears the prompt text and the error, and
\* leaves the exposed skeleton and skinned geometry as they were.
C7_CancelKeepsResults ==
    [][lastOp'.op = "cancel" =>
         /\ ~showPrompt'
         /\ prompt' = <<>>
         /\ error' = Null
         /\ generatedSkeleton' = generatedSkeleton
         /\ skinnedGeometry' = skinnedGeometry
         /\ geoms' = geoms
         /\ skeletons' = skeletons]_vars

\* cancel has run while a skeleton and its skinned geometry were exposed.
C7_Witness ==
    /\ lastOp.op = "cancel"
    /\ generatedSkeleton # NoRef
    /\ skinnedGeometry # NoRef
    /\ geoms[skinnedGeometry].skeleton = generatedSkeleton

(***************************************************************************)
(* Properties of the engine under LassoController (ControllerSpec)         *)
(***************************************************************************)
\* C11: once the tool is disposed of, no later mouse event changes the
\* engine's state, the path or the selection or makes a notification; and
\* the disposal itself notifies the observer
\* with the empty set (whether or not the selection was empty).
C11_DisposedIsInert ==
    [][/\ Disposed => UNCHANGED <<isSelecting, lassoPoints, selectedVertices,
                                  listeners, notes, tested>>
       /\ lastEvent'.type = "cleanup" => notes' = << {} >>]_vars

\* A mouseup has arrived after a disposal made in mid-drag, and nothing was
\* selected by it.
C11_Witness ==
    /\ Disposed
    /\ isSelecting
    /\ lastEvent.type = "mouseup"
    /\ Len(lassoPoints) > 1
    /\ notes = << {} >>

(***************************************************************************)
(* Properties of AttributeSetter (SetterSpec)                              *)
(***************************************************************************)
ToSet(array) == { array[k] : k \in 1..Len(array) }

\* The indices of a selection that lie in [0, position.count).
InRange(selected) == { x \in ToSet(selected) : x \in 0..(PositionCount - 1) }

\* C14: in every step a group that exists still exists afterwards with at
\* least the members it had, and a handleSetAttribute call that passes its
\* validation leaves its group with the previous members united with the
\* in-range indices of the selection.
C14_GroupsOnlyGrow ==
    [][/\ \A g \in 1..Len(vertexGroups) :
            /\ GroupIndex(vertexGroups', vertexGroups[g].name) # 0
            /\ ToSet(vertexGroups[g].indices)
                  \subseteq ToSet(Members(vertexGroups', vertexGroups[g].name))
       /\ \A selected \in SelectedInputs :
            (HandleSetAttribute(selected) /\ SetOutcome(selected) = "set") =>
               ToSet(Members(vertexGroups', lastSet'.key)) =
                  ToSet(Members(vertexGroups, lastSet'.key)) \cup InRange(selected)]_vars

\* A call has extended a group that already had a member, from a selection
\* that also held an out-of-range index, while another group exists.
C14_Witness ==
    /\ lastSet.outcome = "set"
    /\ lastSet.existed
    /\ Len(lastSet.prior) > 0
    /\ Len(Members(vertexGroups, lastSet.key)) > Len(lastSet.prior)
    /\ ToSet(lastSet.selected) # InRange(lastSet.selected)
    /\ Len(vertexGroups) > 1

\* The group keys the name inputs lead to.
GroupKeys == { SanitizedName(Trim(name)) : name \in NameInputs } \ { <<>> }

\* C15: no group holds an index twice, and updating a group with a
\* selection it was just updated with changes nothing.
C15_Idempotent ==
    /\ \A g \in 1..Len(vertexGroups) :
          \A j, k \in 1..Len(vertexGroups[g].indices) :
             vertexGroups[g].indices[j] = vertexGroups[g].indices[k] => j = k
    /\ \A key \in GroupKeys : \A selected \in SelectedInputs :
          LET once == UpdateVertexGroups(vertexGroups, key, selected, PositionCount)
          IN  UpdateVertexGroups(once, key, selected, PositionCount) = once

\* A call has assigned to a group a selection all of whose in-range
\* indices the group already held, and the group is as it was.
C15_Witness ==
    /\ lastSet.outcome = "set"
    /\ lastSet.existed
    /\ Cardinality(InRange(lastSet.selected)) > 1
    /\ InRange(lastSet.selected) \subseteq ToSet(lastSet.prior)
    /\ Members(vertexGroups, lastSet.key) = lastSet.prior

\* C16: a handleSetAttribute call leaves every group other than the one it
\* names exactly as it was, and puts each in-range selected index into the
\* named group, also when another group holds that index.
C16_OtherGroupsKept ==
    [][\A selected \in SelectedInputs : HandleSetAttribute(selected) =>
          /\ \A g \in 1..Len(vertexGroups) :
                vertexGroups[g].name # lastSet'.key =>
                   /\ g <= Len(vertexGroups')
                   /\ vertexGroups'[g] = vertexGroups[g]
          /\ SetOutcome(selected) = "set" =>
                InRange(selected) \subseteq ToSet(Members(vertexGroups', lastSet'.key))]_vars

\* The last call put into its group an index that another group held, and
\* both groups hold it.
C16_Witness ==
    /\ lastSet.outcome = "set"
    /\ \E g \in 1..Len(vertexGroups) : \E x \in InRange(lastSet.selected) :
          /\ vertexGroups[g].name # lastSet.key
          /\ x \in ToSet(vertexGroups[g].indices)
          /\ x \notin ToSet(lastSet.prior)
          /\ x \in ToSet(Members(vertexGroups, lastSet.key))

\* C17: every member of every group is an index of the position buffer, in
\* [0, position.count).
C17_MembersInRange ==
    \A g \in 1..Len(vertexGroups) : \A k \in 1..Len(vertexGroups[g].indices) :
       vertexGroups[g].indices[k] \in 0..(PositionCount - 1)

\* A call has created a group from a selection holding the out-of-range
\* index 7 between two in-range ones, and the group holds only the latter.
C17_Witness ==
    /\ lastSet.outcome = "set"
    /\ ~lastSet.existed
    /\ lastSet.selected = <<1, 7, 0>>
    /\ Members(vertexGroups, lastSet.key) = <<1, 0>>

InvalidNameAlert ==
    "Invalid attribute name. Please use alphanumeric characters and underscores."

\* C18: a handleSetAttribute call whose sanitized name is empty is not
\* carried out: it changes neither the vertex groups nor the geometry
\* attributes, and, on a mesh with a selection and a name that is not
\* blank, it raises the invalid-name alert.
C18_InvalidNameNoMutation ==
    [][\A selected \in SelectedInputs :
          (HandleSetAttribute(selected)
             /\ Len(SanitizedName(Trim(attributeName))) = 0) =>
          /\ UNCHANGED <<vertexGroups, attributes>>
          /\ lastSet'.outcome # "set"
          /\ (meshValid /\ Len(selected) > 0 /\ Len(Trim(attributeName)) > 0) =>
                lastSet'.outcome = InvalidNameAlert]_vars

\* The name "###" was refused while a group existed.
C18_Witness ==
    /\ lastSet.outcome = InvalidNameAlert
    /\ attributeName = << "#", "#", "#" >>
    /\ Len(vertexGroups) > 0
    /\ Len(attributes) > 0

LeftArm == << "L", "e", "f", "t", "_", "A", "r", "m" >>

\* C19: the key of a group is the trimmed name with each run of white space
\* replaced by one "_" and every character outside [A-Za-z0-9_] removed:
\* "Left Arm!" gives "Left_Arm"; every stored key is a non-empty string
\* over [A-Za-z0-9_]; and the name "###" is refused with the invalid-name
\* alert.
C19_Sanitization ==
    /\ SanitizedName(<< "L", "e", "f", "t", " ", "A", "r", "m", "!" >>) = LeftArm
    /\ SanitizedName(Trim(<< " ", "L", "e", "f", "t", "\t", " ", "A", "r", "m", " " >>))
          = LeftArm
    /\ SanitizedName(<< "!", " ", "?" >>) = << "_" >>
    /\ SanitizedName(<< "#", "#", "#" >>) = <<>>
    /\ \A g \in 1..Len(vertexGroups) :
          /\ Len(vertexGroups[g].name) > 0
          /\ \A k \in 1..Len(vertexGroups[g].name) : vertexGroups[g].name[k] \in WordChars
    /\ lastSet.outcome = "set" => GroupIndex(vertexGroups, lastSet.key) # 0
    /\ (meshValid /\ attributeName = << "#", "#", "#" >>) =>
          \A selected \in SelectedInputs \ { <<>> } : SetOutcome(selected) = InvalidNameAlert

\* Groups are stored under the keys "Left_Arm" and "_", the latter made by
\* the last call.
C19_Witness ==
    /\ lastSet.outcome = "set"
    /\ lastSet.key = << "_" >>
    /\ GroupIndex(vertexGroups, LeftArm) # 0
    /\ GroupIndex(vertexGroups, << "_" >>) # 0

(***************************************************************************)
(* Flattening in prepare (Spec)                                            *)
(***************************************************************************)
\* C20: prepare on a mesh without any group reports the empty-groups
\* error, prepare on a mesh whose groups hold no index of the position
\* buffer reports the no-valid-vertices error, and in both cases it stores
\* neither flattened records nor a geometry snapshot and takes no clone.
C20_FlattenErrors ==
    [][\A mesh \in MeshInputs : (Prepare(mesh) /\ mesh.hasPosition) =>
          /\ Len(mesh.groups) = 0 =>
                /\ error' = "Please define at least one vertex group using the Attribute Setter."
                /\ preparedData' = [groupedVertexData |-> <<>>, geometryClone |-> NoRef]
                /\ geoms' = geoms
          /\ (Len(mesh.groups) > 0 /\ ~HasGroupedVertex(mesh)) =>
                /\ error' = "No vertices associated with the defined groups. Please re-assign attributes."
                /\ preparedData' = [groupedVertexData |-> <<>>, geometryClone |-> NoRef]
                /\ geoms' = geoms]_vars

\* After a successful prepare had stored data, a prepare on a mesh whose
\* only group holds an out-of-range index has failed and cleared it.
C20_Witness ==
    /\ lastOp = [op |-> "prepare", kind |-> "invalid"]
    /\ error = "No vertices associated with the defined groups. Please re-assign attributes."
    /\ Len(geoms) > 0
    /\ preparedData = [groupedVertexData |-> <<>>, geometryClone |-> NoRef]

\* The (group, member position) pairs of a mesh whose member is an index of
\* the position buffer.
InRangePairs(mesh) ==
    UNION { { <<g, k>> : k \in { j \in 1..Len(mesh.groups[g].indices) :
                                     mesh.groups[g].indices[j]
                                        \in 0..(Len(mesh.positions) - 1) } } :
            g \in 1..Len(mesh.groups) }

\* C21: a successful prepare stores exactly one record for each pair of a
\* group and a member of it that is an index of the position buffer: as
\* many records as such pairs, each pair's record among them, and no record
\* whose index is out of range.
C21_OneRecordPerPair ==
    [][\A mesh \in MeshInputs : (Prepare(mesh) /\ PrepareError(mesh) = Null) =>
          LET data == preparedData'.groupedVertexData
          IN  /\ Len(data) = Cardinality(InRangePairs(mesh))
              /\ \A p \in InRangePairs(mesh) :
                    \E r \in 1..Len(data) :
                       /\ data[r].group = mesh.groups[p[1]].name
                       /\ data[r].vertexIndex = mesh.groups[p[1]].indices[p[2]]
              /\ \A r \in 1..Len(data) :
                    data[r].vertexIndex \in 0..(Len(mesh.positions) - 1)
              /\ \A q, r \in 1..Len(data) : data[q] = data[r] => q = r]_vars

\* The stored records hold index 1 once for each of the two groups it
\* belongs to, and nothing for the out-of-range member 7 of the second.
C21_Witness ==
    /\ lastOp = [op |-> "prepare", kind |-> "ok"]
    /\ preparedData.groupedVertexData =
          << [group |-> "arm", vertexIndex |-> 1],
             [group |-> "leg", vertexIndex |-> 1],
             [group |-> "leg", vertexIndex |-> 2] >>

(***************************************************************************)
(* Properties of samplePrecomputedPositions (SamplerSpec, SamplerFairSpec) *)
(***************************************************************************)
\* A call with an array, a ratio in [0, 1] and maxCount >= 1.
ValidSamplerArgs ==
    /\ samplerArgs.isArray
    /\ samplerArgs.samplingRatio \in 0..RatioDen
    /\ samplerArgs.maxCount >= 1

\* C22: for an array of N records, a ratio in [0, 1] and maxCount >= 1, the
\* positions collected (and so those returned) are at most
\* min(maxCount, N, ceil(N * ratio)), hence at most min(N, maxCount), and
\* no record of the array gave two of them.
C22_SamplerBounds ==
    (samplerPc \in {"loop", "returned"} /\ ValidSamplerArgs) =>
        LET N == Len(samplerArgs.vertexDataArray)
            ceiling == CHOOSE c \in 0..N :
                          /\ c * RatioDen >= N * samplerArgs.samplingRatio
                          /\ (c - 1) * RatioDen < N * samplerArgs.samplingRatio
        IN  /\ Len(sampledPositions) <= samplerArgs.maxCount
            /\ Len(sampledPositions) <= N
            /\ Len(sampledPositions) <= ceiling
            /\ \A j, k \in 1..Len(sampledPositions) :
                  sampledPositions[j] = sampledPositions[k] => j = k
            /\ \A k \in 1..Len(sampledPositions) : sampledPositions[k] \in 0..(N - 1)

\* A call on three records with ratio 1 and maxCount 2 has returned two
\* positions after drawing some index more than once.
C22_Witness ==
    /\ samplerPc = "returned"
    /\ ValidSamplerArgs
    /\ Len(samplerArgs.vertexDataArray) = 3
    /\ samplerArgs.samplingRatio = RatioDen
    /\ samplerArgs.maxCount = 2
    /\ Len(sampledPositions) = 2
    /\ attempts > 2

\* C23: a call never makes more than 5 * targetSize draws, and every call
\* that enters the loop returns; when the draws are used up before the
\* target size is reached, what it returns is what was collected.
C23_SamplerTerminates ==
    /\ [](samplerPc \in {"loop", "returned"} => attempts <= targetSize * AttemptsFactor)
    /\ (samplerPc = "loop") ~> (samplerPc = "returned")

\* A call has returned one position, short of its target size of two,
\* after using up its ten draws.
C23_Witness ==
    /\ samplerPc = "returned"
    /\ targetSize = 2
    /\ attempts = targetSize * AttemptsFactor
    /\ Cardinality(sampledInputIndices) < targetSize
    /\ Len(sampledPositions) = 1

(***************************************************************************)
(* Properties of the skeleton synthesizer (RigSpec)                        *)
(***************************************************************************)
\* The last call skinned the geometry with a skeleton of n >= 1 bones.
Skinned == rigCall.called /\ Len(rigSkeleton) >= 1
RigVertices == 1..Len(rigGeometry.positions)

\* C24: after skinning with n >= 1 bones every vertex of the position
\* buffer has the skin-index vector <<b, 0, 0, 0>> of an existing bone b and
\* the skin-weight vector <<1, 0, 0, 0>>.
C24_EveryVertexBound ==
    Skinned =>
        \A i \in RigVertices :
            /\ \E b \in 0..(Len(rigSkeleton) - 1) :
                  rigGeometry.skinIndex[i] = << b, 0, 0, 0 >>
            /\ rigGeometry.skinWeight[i] = << 1, 0, 0, 0 >>

\* The squared distance from vertex i of the skinned geometry to joint j of
\* the call.
JointDistanceSq(i, j) == DistanceToSquared(rigGeometry.positions[i], rigCall.joints[j])
LineSkinned ==
    /\ Skinned
    /\ rigGeometry.mesh = "line"
    /\ rigCall.joints = << Vec(0, 0, 0), Vec(5, 0, 0) >>

\* C25: a vertex bound with weight 1 is bound to a bone whose joint is at
\* the least squared distance from it among the joints; with numeric joints
\* every vertex is so bound; the six vertices at x = 0..5 with joints
\* (0,0,0) and (5,0,0) go to bones 0, 0, 0, 1, 1, 1.
C25_NearestJoint ==
    Skinned =>
        /\ \A i \in RigVertices :
              LET b == rigGeometry.skinIndex[i][1] + 1
              IN  /\ rigGeometry.skinWeight[i][1] = 1 =>
                        /\ JointDistanceSq(i, b) # NaN
                        /\ \A j \in 1..Len(rigCall.joints) :
                              JointDistanceSq(i, j) # NaN =>
                                  JointDistanceSq(i, b) <= JointDistanceSq(i, j)
                  /\ (\A j \in 1..Len(rigCall.joints) : IsNumeric(rigCall.joints[j])) =>
                        rigGeometry.skinWeight[i][1] = 1
        /\ LineSkinned =>
              [i \in RigVertices |-> rigGeometry.skinIndex[i]] =
                 << <<0, 0, 0, 0>>, <<0, 0, 0, 0>>, <<0, 0, 0, 0>>,
                    <<1, 0, 0, 0>>, <<1, 0, 0, 0>>, <<1, 0, 0, 0>> >>

\* The line of six vertices has been skinned with joints (0,0,0), (5,0,0).
C25_Witness ==
    /\ LineSkinned
    /\ rigGeometry.skinIndex[3] = <<0, 0, 0, 0>>
    /\ rigGeometry.skinIndex[4] = <<1, 0, 0, 0>>
    /\ \A i \in RigVertices : rigGeometry.skinWeight[i] = <<1, 0, 0, 0>>

\* Vertex i is at the same least distance from two or more joints.
Tied(i) ==
    \E j, k \in 1..Len(rigCall.joints) :
        /\ j # k
        /\ JointDistanceSq(i, j) # NaN
        /\ JointDistanceSq(i, j) = JointDistanceSq(i, k)
        /\ \A l \in 1..Len(rigCall.joints) :
              JointDistanceSq(i, l) # NaN => JointDistanceSq(i, j) <= JointDistanceSq(i, l)

\* C26: no bone of a lower index is as near to a bound vertex as the bone
\* it is bound to, and a call that repeats the joints of the call before it
\* on the geometry that call skinned leaves every skin vector as it was.
C26_StableTieBreak ==
    /\ [](Skinned =>
            \A i \in RigVertices :
                rigGeometry.skinWeight[i][1] = 1 =>
                    \A j \in 1..rigGeometry.skinIndex[i][1] :
                        \/ JointDistanceSq(i, j) = NaN
                        \/ JointDistanceSq(i, j) >
                              JointDistanceSq(i, rigGeometry.skinIndex[i][1] + 1))
    /\ [][\A jointPositions \in RigJointLists :
            (RigBind(jointPositions) /\ Skinned /\ rigCall.joints = jointPositions) =>
                /\ rigGeometry'.skinIndex = rigGeometry.skinIndex
                /\ rigGeometry'.skinWeight = rigGeometry.skinWeight]_vars

\* The vertex at x = 1 of the line, equidistant from the joints (2,0,0) and
\* (0,0,0), is bound to bone 0, in a call made on a geometry that already
\* carried this assignment.
C26_Witness ==
    /\ Skinned
    /\ rigGeometry.mesh = "line"
    /\ rigCall.joints = << Vec(2, 0, 0), Vec(0, 0, 0) >>
    /\ Tied(2)
    /\ rigGeometry.skinIndex[2] = <<0, 0, 0, 0>>
    /\ rigCall.before.skeleton # NoRef
    /\ rigCall.before.skinIndex = rigGeometry.skinIndex

ThreeJoints == << Vec(0, 0, 0), Vec(1, 2, 3), Vec(-1, 0, 1) >>

\* C27: a call with n >= 1 joints returns n bones in joint order: bone 0 has
\* no parent and the position of joint 0, every later bone i has bone 0 as
\* its parent and, the joints being numeric, the position joint i - joint 0;
\* the joints (0,0,0), (1,2,3), (-1,0,1) give the offsets (1,2,3), (-1,0,1).
C27_FlatTree ==
    (rigCall.called /\ Len(rigCall.joints) >= 1) =>
        /\ Len(rigSkeleton) = Len(rigCall.joints)
        /\ rigSkeleton[1] = [position |-> rigCall.joints[1], parent |-> 0]
        /\ \A i \in 2..Len(rigSkeleton) :
              /\ rigSkeleton[i].parent = 1
              /\ (IsNumeric(rigCall.joints[i]) /\ IsNumeric(rigCall.joints[1])) =>
                    rigSkeleton[i].position =
                        Vec(rigCall.joints[i].x - rigCall.joints[1].x,
                            rigCall.joints[i].y - rigCall.joints[1].y,
                            rigCall.joints[i].z - rigCall.joints[1].z)
        /\ rigCall.joints = ThreeJoints =>
              /\ rigSkeleton[2].position = Vec(1, 2, 3)
              /\ rigSkeleton[3].position = Vec(-1, 0, 1)

\* The joints of the example have given three bones, the last a child of
\* the root at (-1,0,1) from it.
C27_Witness ==
    /\ rigCall.called
    /\ rigCall.joints = ThreeJoints
    /\ Len(rigSkeleton) = 3
    /\ rigSkeleton[3] = [position |-> Vec(-1, 0, 1), parent |-> 1]

\* C28: a call with zero joints returns no skeleton and leaves the geometry
\* as it was passed: no skin attribute and no skeleton reference is set.
C28_NoJointsNoMutation ==
    (rigCall.called /\ Len(rigCall.joints) = 0) =>
        /\ rigSkeleton = <<>>
        /\ rigGeometry = rigCall.before

\* Zero joints were passed with a geometry that had never been skinned, and
\* it carries no skin attribute and no skeleton.
C28_Witness ==
    /\ rigCall.called
    /\ Len(rigCall.joints) = 0
    /\ rigSkeleton = <<>>
    /\ rigGeometry.skinIndex = <<>>
    /\ rigGeometry.skinWeight = <<>>
    /\ rigGeometry.skeleton = NoRef

(***************************************************************************)
(* Properties of the orchestrator's use of the synthesizer (Spec)          *)
(***************************************************************************)
\* C29: whatever prepare and generate calls have run, the geometry of every
\* mesh itself carries no skinIndex and no skinWeight attribute: generate
\* skins the clone alone.
C29_LiveGeometryUnskinned ==
    \A n \in DOMAIN liveGeometry :
        /\ liveGeometry[n].skinIndex = <<>>
        /\ liveGeometry[n].skinWeight = <<>>

\* A generate has skinned the clone of a mesh whose own geometry has no
\* skin attributes.
C29_Witness ==
    /\ lastOp = [op |-> "settle", kind |-> "array"]
    /\ skinnedGeometry # NoRef
    /\ geoms[skinnedGeometry].skinIndex # <<>>
    /\ geoms[skinnedGeometry].skinWeight # <<>>
    /\ liveGeometry[geoms[skinnedGeometry].mesh].skinIndex = <<>>

\* C30: when a request is answered with a success status and an array, an
\* empty array ends the generate call with its error set and no result
\* exposed, and an array of n >= 1 joints ends it with a new skeleton of
\* exactly n bones and the skinned clone exposed, the prompt closed and no
\* error set by the call, whether n is 4 or not.
C30_AnyCountAccepted ==
    [][\A req \in inFlight : \A outcome \in ArrayOutcomes :
          Settle(req, outcome) =>
              IF Len(outcome.joints) = 0
              THEN /\ error' = "Missing geometry or joint data for skeleton creation."
                   /\ generatedSkeleton' = NoRef
                   /\ skinnedGeometry' = NoRef
                   /\ skeletons' = skeletons
              ELSE /\ generatedSkeleton' = Len(skeletons) + 1
                   /\ Len(skeletons') = Len(skeletons) + 1
                   /\ Len(skeletons'[generatedSkeleton']) = Len(outcome.joints)
                   /\ skinnedGeometry' = req.geometryClone
                   /\ geoms'[skinnedGeometry'].skeleton = generatedSkeleton'
                   /\ ~showPrompt'
                   /\ error' = error]_vars

\* A response of one joint has given a skeleton of one bone after a
\* response of no joint had ended a generate call with the error.
C30_Witness ==
    /\ lastOp = [op |-> "settle", kind |-> "array"]
    /\ sent = 2
    /\ generatedSkeleton # NoRef
    /\ Len(skeletons) = 1
    /\ Len(skeletons[generatedSkeleton]) = 1
    /\ skinnedGeometry # NoRef
    /\ error = Null

\* C31: a success response whose body is not an array of numeric {x, y, z}
\* objects ends the generate call with an error that is none of the
\* service-failure messages, without a skeleton being created or a
\* geometry skinned.
C31_MalformedRejected ==
    [][\A req \in inFlight : \A outcome \in MalformedOutcomes :
          Settle(req, outcome) =>
              /\ skeletons' = skeletons
              /\ geoms' = geoms
              /\ generatedSkeleton' = NoRef
              /\ skinnedGeometry' = NoRef
              /\ error' \notin {Null, "", "Failed to fetch",
                                "Failed to get suggestions from AI.",
                                "API request failed (500)", "API request failed"}]_vars

\* C32: a step that is a generate call sends at most one request, and no
\* other step (the end of a generate call, failed or not, included) sends
\* one: the requests in flight only shrink until generate is called again.
C32_NoRetry ==
    [][/\ Generate =>
            /\ sent' \in {sent, sent + 1}
            /\ Cardinality(inFlight' \ inFlight) = sent' - sent
       /\ ~Generate =>
            /\ sent' = sent
            /\ inFlight' \subseteq inFlight]_vars

\* A generate call has failed on the answer of the service; its one request
\* is the only one sent and none is in flight.
C32_Witness ==
    /\ lastOp.op = "settle"
    /\ lastOp.kind \in {"reject", "status", "unparsable"}
    /\ error # Null
    /\ sent = 1
    /\ inFlight = {}

(***************************************************************************)
(* Properties of the containment test (ContainSpec)                        *)
(***************************************************************************)
\* Where a point lies with respect to the triangle a, b, c given counter-
\* clockwise, by the signs of the three cross products.
Cross(a, b, p) == (b.x - a.x) * (p.y - a.y) - (b.y - a.y) * (p.x - a.x)
StrictlyInTriangle(a, b, c, p) == Cross(a, b, p) > 0 /\ Cross(b, c, p) > 0 /\ Cross(c, a, p) > 0
InClosedTriangle(a, b, c, p) == Cross(a, b, p) >= 0 /\ Cross(b, c, p) >= 0 /\ Cross(c, a, p) >= 0

\* The interior and the exterior of the test polygons, from their shapes:
\* the square ]1,5[ x ]1,5[, the L as the union of two rectangles, the arrow
\* as the triangle (0,0), (6,0), (3,6) without the triangle (0,0), (6,0), (3,2).
StrictlyInside(points, p) ==
    CASE points \in SquarePaths -> 1 < p.x /\ p.x < 5 /\ 1 < p.y /\ p.y < 5
      [] points = LPath ->
            \/ 0 < p.x /\ p.x < 6 /\ 0 < p.y /\ p.y < 2
            \/ 0 < p.x /\ p.x < 2 /\ 0 < p.y /\ p.y < 6
      [] points = ArrowPath ->
            /\ StrictlyInTriangle(Pt(0, 0), Pt(6, 0), Pt(3, 6), p)
            /\ ~InClosedTriangle(Pt(0, 0), Pt(6, 0), Pt(3, 2), p)
      [] OTHER -> FALSE
StrictlyOutside(points, p) ==
    CASE points \in SquarePaths -> p.x < 1 \/ p.x > 5 \/ p.y < 1 \/ p.y > 5
      [] points = LPath ->
            /\ ~(0 <= p.x /\ p.x <= 6 /\ 0 <= p.y /\ p.y <= 2)
            /\ ~(0 <= p.x /\ p.x <= 2 /\ 0 <= p.y /\ p.y <= 6)
      [] points = ArrowPath ->
            \/ ~InClosedTriangle(Pt(0, 0), Pt(6, 0), Pt(3, 6), p)
            \/ StrictlyInTriangle(Pt(0, 0), Pt(6, 0), Pt(3, 2), p)
      [] OTHER -> FALSE

\* C33: for the square and for the two concave polygons, the test returns
\* true for a point strictly inside and false for a point strictly outside.
C33_Containment ==
    testResult.called =>
        /\ StrictlyInside(testPath, testPoint) => testResult.inside
        /\ StrictlyOutside(testPath, testPoint) => ~testResult.inside

\* A point in the notch of the arrow, above its lower edges' ends and
\* outside the polygon, has been reported as not inside.
C33_Witness ==
    /\ testResult.called
    /\ testPath = ArrowPath
    /\ testPoint = Pt(3, 1)
    /\ StrictlyOutside(testPath, testPoint)
    /\ ~testResult.inside

\* C37: no call divides by yj - yi = 0, and a call on a path of fewer than
\* 3 points returns false.
C37_SafeRayCast ==
    testResult.called =>
        /\ 0 \notin testResult.divisors
        /\ Len(testPath) < 3 => ~testResult.inside

\* A call on the square, which has two horizontal edges, for a point whose
\* ray crosses its two vertical edges: it has divided by 4 and by -4 only.
C37_Witness ==
    /\ testResult.called
    /\ testPath = << Pt(1, 1), Pt(5, 1), Pt(5, 5), Pt(1, 5) >>
    /\ testPoint = Pt(3, 3)
    /\ testResult.divisors = {4, -4}
    /\ testResult.inside

(***************************************************************************)
(* Properties of the orchestrator under interleaved calls (UISpec, Spec)   *)
(***************************************************************************)
\* C34: a skeleton or skinned geometry that is exposed was built from the
\* geometry snapshot of the most recent prepare.
C34_ResultOfLatestPrepare ==
    (generatedSkeleton # NoRef \/ skinnedGeometry # NoRef) =>
        skinnedGeometry = preparedData.geometryClone

\* C35: whenever the prompt is shown, the prepared data is present: a
\* non-empty list of grouped vertex records and a geometry snapshot.
C35_PromptHasData ==
    showPrompt =>
        /\ Len(preparedData.groupedVertexData) > 0
        /\ preparedData.geometryClone # NoRef

\* C36: isPreparing is false in every state a prepare call leaves;
\* isLoading is false whenever no generate call awaits the service; and,
\* the service answering every request, isLoading once set becomes false.
C36_BusyFlagsReset ==
    /\ [](~isPreparing)
    /\ [](inFlight = {} => ~isLoading)
    /\ (isLoading ~> ~isLoading)

\* The second of two generate calls has ended and isLoading is false.
C36_Witness ==
    /\ lastOp.op = "settle"
    /\ sent = 2
    /\ inFlight = {}
    /\ ~isLoading
    /\ ~isPreparing

\* C38: a call of sampleVertexPositions that has entered its loop returns,
\* whatever the selected indices, every element being drawn again and again.
C38_PickTerminates == (vertexPc = "loop") ~> (vertexPc = "returned")

\* The in-range vertex indices that are members of some vertex group.
GroupedMembers ==
    { x \in UNION { { vertexGroups[g].indices[k] : k \in 1..Len(vertexGroups[g].indices) } :
                    g \in 1..Len(vertexGroups) } : x >= 0 /\ x < Len(LinePositions) }

\* C39: once "Continue to Animation" has stored the grouped vertex data, the
\* model context holds one record for each in-range vertex index that is a
\* member of some group, and no other record.
C39_OneRecordPerMember ==
    route = "/animation" =>
        LET records == contextVertexData.records
        IN  /\ ~contextVertexData.isNull
            /\ { records[k].index : k \in 1..Len(records) } = GroupedMembers
            /\ Len(records) = Cardinality(GroupedMembers)

\* The request is a POST, the API key is set, sampledVertices is a non-empty
\* array and animationPrompt a string that is not blank.
Forwardable ==
    /\ handlerReq.method = "POST"
    /\ handlerReq.hasApiKey
    /\ handlerReq.sampledVertices.isArray
    /\ Len(handlerReq.sampledVertices.items) > 0
    /\ handlerReq.animationPrompt.isString
    /\ \E k \in 1..Len(handlerReq.animationPrompt.text) :
          handlerReq.animationPrompt.text[k] \notin Whitespace

\* C40: the handler calls upstream only for a forwardable request, answers
\* any other with 405, 500 or 400 and no upstream call, and has sent exactly
\* one response whenever it has ended.
C40_OneResponse ==
    /\ upstreamCalls > 0 => Forwardable
    /\ (handlerPc \in {"returned", "threw"} /\ ~Forwardable) =>
          /\ upstreamCalls = 0
          /\ Len(responses) = 1
          /\ responses[1].status =
                (IF handlerReq.method # "POST" THEN 405
                 ELSE IF ~handlerReq.hasApiKey THEN 500 ELSE 400)
    /\ handlerPc \in {"returned", "threw"} => Len(responses) = 1

====
